---- MODULE Spec2Model ----
\* Verification model of the live BMFF provenance signer (c2pa-rs fork):
\* the rolling-hash and Merkle signing engine of sdk/src/assertions/bmff_hash.rs,
\* its verifier, and the live coordinator of cli/src/live/mod.rs.
\*
\* Digests are modelled symbolically: a digest is the bracketed sequence of
\* the bytes it was computed over, so two digests are equal exactly when
\* algorithm and input are equal (an ideal, collision-free hash).
EXTENDS Integers, Sequences, FiniteSets, TLC

VARIABLES
    bmff,      \* the BmffHash assertion held by the signing engine
    media,     \* the ingested originals: file name -> Option<file>
    out,       \* the output tree: file name -> Option<file>
    res,       \* outcome of the last engine call
    chain,     \* fragments signed so far by consecutive shift+add pairs
    phase,     \* position in the shift/add protocol
    nops,      \* number of engine calls made
    leafCount, \* Merkle tree under test: its number of leaves
    query,     \* the last proof handed to check_merkle_tree
    verdict,   \* what check_merkle_tree answered
    vcall,     \* the last verifier call: its inputs and its answer
    task,      \* live coordinator: the rolling task spawned per fragment
    ingested,  \* live coordinator: fragments ingested so far
    initAssertion, \* live coordinator: the assertion held by the signed init file
    fs,        \* the coordinator's disk: path -> file
    dirs,      \* the coordinator's disk: the directories that exist
    progress,  \* per representation: what was ingested and which tasks ran
    pushed,    \* what the CDN has received: url and body of every POST
    window,    \* the configured Merkle group size (window_size)
    deletes,   \* the URLs the CDN was asked to delete
    req,       \* the ingest requests answered and the signing threads spawned
    retry,     \* Manifold: the payload map and the get_json calls in flight
    call       \* the last call of a file utility: its inputs and its result

engineVars == <<bmff, media, out, res, chain, phase, nops>>
treeVars == <<leafCount, query, verdict>>
verifyVars == <<vcall>>
liveVars == <<task, ingested, initAssertion>>
storeVars == <<fs, dirs, progress, pushed, window>>
utilVars == <<deletes, req, retry, call>>
vars == <<bmff, media, out, res, chain, phase, nops, leafCount, query, verdict,
          vcall, task, ingested, initAssertion, fs, dirs, progress, pushed, window,
          deletes, req, retry, call>>

-----------------------------------------------------------------------------
\* Bounds

NumFrags == 3
MaxOps == 6
MaxLeaves == 6

-----------------------------------------------------------------------------
\* Option<T>

None == <<>>
Some(x) == <<x>>
IsSome(o) == Len(o) > 0
IsNone(o) == Len(o) = 0
Unwrap(o) == o[1]

-----------------------------------------------------------------------------
\* Hashing (utils/hash_utils)

HashEnd == 0 - 9

AlgTag(alg) ==
    CASE alg = "sha256" -> 0 - 1
      [] alg = "sha384" -> 0 - 2
      [] alg = "sha512" -> 0 - 3
      [] OTHER -> 0 - 4

SupportedAlg(alg) == alg \in {"sha256", "sha384", "sha512"}

Digest(alg, bytes) == <<AlgTag(alg)>> \o bytes \o <<HashEnd>>

\* concat_and_hash(alg, left, right?)
concat_and_hash(alg, left, right) ==
    IF IsSome(right) THEN Digest(alg, left \o Unwrap(right))
    ELSE Digest(alg, left)

-----------------------------------------------------------------------------
\* BMFF files: a file is a sequence of top-level boxes

PathCode(p) ==
    CASE p = "styp" -> 1
      [] p = "moof" -> 2
      [] p = "mdat" -> 3
      [] p = "uuid" -> 4
      [] p = "ftyp" -> 5
      [] p = "moov" -> 6
      [] OTHER -> 7

Box(path, data) ==
    [path |-> path, data |-> data, kind |-> "plain", anchor |-> None,
     unique_id |-> 0, local_id |-> 0, location |-> 0, hashes |-> None]

\* the C2PA uuid box carrying a FragmentRollingHash
RollingBox(anchor) ==
    [path |-> "uuid", data |-> 0, kind |-> "rolling", anchor |-> anchor,
     unique_id |-> 0, local_id |-> 0, location |-> 0, hashes |-> None]

\* the C2PA uuid box carrying a BmffMerkleMap
MerkleBox(uid, lid, loc, hashes) ==
    [path |-> "uuid", data |-> 0, kind |-> "merkle", anchor |-> None,
     unique_id |-> uid, local_id |-> lid, location |-> loc, hashes |-> hashes]

IsC2paBox(b) == b.path = "uuid" /\ b.kind # "plain"

CountPath(file, p) == Cardinality({i \in 1..Len(file) : file[i].path = p})

\* C2PABmffBoxesRollingHash::from_reader(..).rolling_hashes
rolling_hashes(file) == SelectSeq(file, LAMBDA b : IsC2paBox(b) /\ b.kind = "rolling")

\* read_bmff_c2pa_boxes(..).bmff_merkle
bmff_merkle(file) == SelectSeq(file, LAMBDA b : IsC2paBox(b) /\ b.kind = "merkle")

\* ..bmff_merkle_box_infos: the box infos of every C2PA uuid box
bmff_merkle_box_infos(file) == SelectSeq(file, LAMBDA b : IsC2paBox(b))

FirstIndex(file, p) ==
    IF \E i \in 1..Len(file) : file[i].path = p
    THEN CHOOSE i \in 1..Len(file) :
            file[i].path = p /\ \A j \in 1..(i - 1) : file[j].path # p
    ELSE 0

\* io_utils::insert_data_at: source[0..offset], buf, source[offset..]
insert_data_at(source, at, box) ==
    SubSeq(source, 1, at - 1) \o <<box>> \o SubSeq(source, at, Len(source))

\* ASSERTION_CREATION_VERSION, the bmff_version of a BmffHash made by new()
BmffVersion == 2

\* a mutated flag: the assertion is taken for version 1
BmffV2_V1 == FALSE

\* self.bmff_version > 1, the bmff_v2 flag handed to bmff_to_jumbf_exclusions
BmffV2 == BmffVersion > 1

RECURSIVE Flatten(_)
Flatten(ss) == IF Len(ss) = 0 THEN <<>> ELSE Head(ss) \o Flatten(Tail(ss))

\* the payload bytes of a C2PA uuid box: the anchor_point, or the ids, the
\* location and the proof hashes
BoxContent(b) ==
    CASE b.kind = "rolling" -> IF IsSome(b.anchor) THEN Unwrap(b.anchor) ELSE <<>>
      [] b.kind = "merkle" ->
            <<b.unique_id, b.local_id, b.location>>
            \o (IF IsSome(b.hashes) THEN Flatten(Unwrap(b.hashes)) ELSE <<>>)
      [] OTHER -> <<>>

\* bmff_to_jumbf_exclusions followed by hash_stream_by_alg: the bytes of
\* every box that is not named by the assertion's exclusions and, with
\* bmff_v2, is not a C2PA uuid box
RECURSIVE HashedBytesIn(_, _, _)
HashedBytesIn(file, excl, bmff_v2) ==
    IF Len(file) = 0 THEN <<>>
    ELSE LET b == Head(file) IN
         (IF (bmff_v2 /\ IsC2paBox(b)) \/ b.path \in excl THEN <<>>
          ELSE <<PathCode(b.path), b.data>> \o BoxContent(b))
         \o HashedBytesIn(Tail(file), excl, bmff_v2)

\* the same in v2 mode: the C2PA uuid box is always excluded
HashedBytes(file, excl) == HashedBytesIn(file, excl, TRUE)

\* the leaf hash add_merkle_for_fragmented takes of a fragment
leaf_hash(alg, file, excl) == Digest(alg, HashedBytesIn(file, excl, BmffV2))

hash_stream_by_alg(alg, file, excl) == Digest(alg, HashedBytes(file, excl))

-----------------------------------------------------------------------------
\* The ingested originals (<media>/<name>/<rep>/): the init segment, NumFrags
\* well-formed fragments, and four other inputs a caller can hand to the
\* engine.

InitName == 0
TwoMoof == NumFrags + 1
NoMdat == NumFrags + 2
PreBoxed == NumFrags + 3
Missing == NumFrags + 4

PlainFrags == 1..NumFrags
FragNames == 1..(NumFrags + 4)
FileNames == 0..(NumFrags + 4)

InitFile == <<Box("ftyp", 0), Box("moov", 0)>>

Original(n) ==
    CASE n = InitName -> Some(InitFile)
      [] n \in PlainFrags -> Some(<<Box("styp", n), Box("moof", n), Box("mdat", n)>>)
      [] n = TwoMoof -> Some(<<Box("moof", n), Box("mdat", n), Box("moof", n)>>)
      [] n = NoMdat -> Some(<<Box("styp", n), Box("moof", n)>>)
      [] n = PreBoxed -> Some(<<Box("styp", n), RollingBox(None), Box("moof", n), Box("mdat", n)>>)
      [] OTHER -> None

Originals == [n \in FileNames |-> Original(n)]

-----------------------------------------------------------------------------
\* RollingHash (bmff_hash.rs) and BmffHash

NewRollingHash(alg) ==
    [alg |-> Some(alg), rolling_hash |-> None, previous_hash |-> None,
     init_hash |-> Some(<<0>>)]

NewBmffHash(alg) ==
    [exclusions |-> {}, alg |-> Some(alg), hash |-> None, merkle |-> None,
     rolling_hash |-> None]

\* BmffHash::previous_hash
previous_hash(b) ==
    IF IsSome(b.rolling_hash) THEN Unwrap(b.rolling_hash).previous_hash ELSE None

\* BmffHash::rolling_hash().rolling_hash()
current_hash(b) ==
    IF IsSome(b.rolling_hash) THEN Unwrap(b.rolling_hash).rolling_hash ELSE None

\* a mutated RollingHash::shift_rolling_hash that clears rolling_hash without
\* moving it to previous_hash
RhShift_Drop(rh) == [rh EXCEPT !.rolling_hash = None]

\* RollingHash::shift_rolling_hash: previous_hash = rolling_hash.take()
RhShift(rh) == [rh EXCEPT !.previous_hash = rh.rolling_hash, !.rolling_hash = None]

\* BmffHash::shift_rolling_hash
shift_rolling_hash(b) ==
    IF IsSome(b.rolling_hash)
    THEN [b EXCEPT !.rolling_hash = Some(RhShift(Unwrap(b.rolling_hash)))]
    ELSE b

\* a mutated early return that has already stored a fresh RollingHash
Err_Dirty(kind, b, m, o) ==
    [ok |-> FALSE, err |-> kind,
     bmff |-> [b EXCEPT !.rolling_hash = Some(NewRollingHash("sha256"))],
     media |-> m, out |-> o]

\* an early return: Err(kind), the assertion untouched, the trees as they
\* are at that point
Err(kind, b, m, o) == [ok |-> FALSE, err |-> kind, bmff |-> b, media |-> m, out |-> o]
Ok(b, m, o) == [ok |-> TRUE, err |-> "", bmff |-> b, media |-> m, out |-> o]

\* a mutated hash_pair that hashes a first fragment together with itself
hash_pair_Doubled(prev, fragment_hash) ==
    IF IsSome(prev) THEN <<Unwrap(prev), Some(fragment_hash)>>
    ELSE <<fragment_hash, Some(fragment_hash)>>

\* the (left, right) handed to concat_and_hash
hash_pair(prev, fragment_hash) ==
    IF IsSome(prev) THEN <<Unwrap(prev), Some(fragment_hash)>>
    ELSE <<fragment_hash, None>>

\* BmffHash::add_rolling_hash_fragment(alg, asset_path, fragment, output_path)
\* on assertion b, originals m and output tree o; f names the fragment
add_rolling_hash_fragment(b, m, o, alg, f) ==
    IF IsNone(m[f]) THEN Err("Io", b, m, o)
    ELSE
    LET source == Unwrap(m[f])
        o1 == [o EXCEPT ![f] = Some(source)]
        o2 == IF IsNone(o1[InitName]) THEN [o1 EXCEPT ![InitName] = m[InitName]] ELSE o1
        anchor_data == RollingBox(previous_hash(b))
        dest == insert_data_at(source, FirstIndex(source, "moof"), anchor_data)
        o3 == [o2 EXCEPT ![f] = Some(dest)]
        fragment_hash == hash_stream_by_alg(alg, dest, b.exclusions)
        lr == hash_pair(previous_hash(b), fragment_hash)
        rh == IF IsSome(b.rolling_hash) THEN Unwrap(b.rolling_hash) ELSE NewRollingHash(alg)
    IN
    IF CountPath(source, "moof") # 1 THEN Err("BadParam", b, m, o2)
    ELSE IF CountPath(source, "mdat") # 1 THEN Err("BadParam", b, m, o2)
    ELSE IF Len(rolling_hashes(source)) > 1 \/ Len(bmff_merkle_box_infos(source)) > 1
         THEN Err("BadParam", b, m, o2)
    ELSE IF ~SupportedAlg(alg) THEN Err("UnsupportedType", b, m, o3)
    ELSE Ok([b EXCEPT !.rolling_hash =
                Some([rh EXCEPT !.rolling_hash = Some(concat_and_hash(alg, lr[1], lr[2]))])],
            m, o3)

-----------------------------------------------------------------------------
\* The engine driven call by call

Algs == {"sha256", "md5"}

\* res records the last call: what was called, how it ended, and the rolling
\* state the call started from (prev, roll); afterFail says that the call
\* before it was a failed add, whose starting previous_hash is fprev.
NoRes ==
    [op |-> "none", ok |-> TRUE, err |-> "", f |-> 0, alg |-> "",
     prev |-> None, roll |-> None, afterFail |-> FALSE, fprev |-> None]

EngineInit ==
    /\ bmff = NewBmffHash("sha256")
    /\ media = Originals
    /\ out = [n \in FileNames |-> None]
    /\ res = NoRes
    /\ chain = <<>>
    /\ phase = "idle"
    /\ nops = 0

\* one shift_rolling_hash call on the engine's assertion
ShiftStep ==
    /\ bmff' = shift_rolling_hash(bmff)
    /\ res' = [op |-> "shift", ok |-> TRUE, err |-> "", f |-> 0, alg |-> "",
               prev |-> previous_hash(bmff), roll |-> current_hash(bmff),
               afterFail |-> FALSE, fprev |-> None]
    /\ phase' = IF phase = "idle" THEN "shifted" ELSE "broken"
    /\ chain' = IF phase = "idle" THEN chain ELSE <<>>
    /\ nops' = nops + 1
    /\ UNCHANGED <<media, out>>
    /\ UNCHANGED <<treeVars, verifyVars, liveVars, storeVars, utilVars>>

ShiftRollingHash ==
    /\ nops < MaxOps
    /\ ShiftStep

\* one add_rolling_hash_fragment(alg, init, fragment f, output) call on the
\* engine's assertion
AddFragmentStep(f, alg) ==
    LET r == add_rolling_hash_fragment(bmff, media, out, alg, f)
        failedBefore == res.op = "add" /\ ~res.ok
    IN
    /\ bmff' = r.bmff
    /\ media' = r.media
    /\ out' = r.out
    /\ res' = [op |-> "add", ok |-> r.ok, err |-> r.err, f |-> f, alg |-> alg,
               prev |-> previous_hash(bmff), roll |-> current_hash(bmff),
               afterFail |-> failedBefore,
               fprev |-> IF failedBefore THEN res.prev ELSE None]
    /\ phase' = IF phase = "shifted" /\ r.ok THEN "idle" ELSE "broken"
    /\ chain' = IF phase = "shifted" /\ r.ok
                THEN Append(chain, [f |-> f, alg |-> alg]) ELSE <<>>
    /\ nops' = nops + 1
    /\ UNCHANGED <<treeVars, verifyVars, liveVars, storeVars, utilVars>>

AddRollingHashFragment ==
    /\ nops < MaxOps
    /\ \E f \in FragNames, alg \in Algs : AddFragmentStep(f, alg)

NoQuery == [asked |-> FALSE, leaf |-> 0, location |-> 0, proof |-> None]

TreeIdle ==
    /\ leafCount = 0
    /\ query = NoQuery
    /\ verdict = FALSE

\* no verifier call made
NoCall ==
    [asked |-> FALSE, op |-> "", manifest |-> NewBmffHash("sha256"),
     init |-> <<>>, fragments |-> <<>>, ok |-> FALSE, err |-> "", msg |-> ""]

VerifyIdle == vcall = NoCall

\* a rolling task of the live coordinator: where it stands, and the
\* assertion it works on
NoTask == [pc |-> "none", bmff |-> NewBmffHash("sha256")]

LiveIdle ==
    /\ task = [k \in PlainFrags |-> NoTask]
    /\ ingested = 0
    /\ initAssertion = None

\* the representations of the stream
Reps == {1, 2}

\* <media>
MediaRoot == <<"media">>

\* what a representation has been through, and (alone) the disk and CDN of a
\* coordinator that was sent this representation only
NoProgress ==
    [init |-> FALSE, ingested |-> 0, rolling |-> 0, merkle |-> 0,
     alone |-> [fs |-> [p \in {} |-> None], dirs |-> {MediaRoot}, pushed |-> {}]]

\* an empty media directory, nothing ingested, nothing sent
DiskIdle ==
    /\ fs = [p \in {} |-> None]
    /\ dirs = {MediaRoot}
    /\ progress = [r \in Reps |-> NoProgress]
    /\ pushed = {}

StoreIdle == DiskIdle /\ window = 0

\* no delete forwarded, no request answered, no get_json under way, no
\* utility called
NoRequests == [answered |-> {}, spawned |-> {}]
NumCallers == 2
MaxAttempts == 8
Callers == 1..NumCallers
IdleCaller ==
    [pc |-> "idle", rep |-> "", strategy |-> [curr |-> 0, next |-> 0], attempts |-> 0,
     delay |-> 0]
NoRetry == [map |-> [r \in {} |-> None], callers |-> [c \in Callers |-> IdleCaller]]
NoUtilCall == [op |-> "none"]

UtilIdle ==
    /\ deletes = {}
    /\ req = NoRequests
    /\ retry = NoRetry
    /\ call = NoUtilCall

Init == EngineInit /\ TreeIdle /\ VerifyIdle /\ LiveIdle /\ StoreIdle /\ UtilIdle

Next == ShiftRollingHash \/ AddRollingHashFragment

Spec == Init /\ [][Next]_vars

-----------------------------------------------------------------------------
\* Properties of the rolling-hash engine

\* H(F without its excluded bytes), computed over the ingested original
FragDigest(e) == hash_stream_by_alg(e.alg, Unwrap(Original(e.f)), bmff.exclusions)

\* the rolling value after signing the fragments of c in order:
\* roll_0 = H(H(F_0)), roll_k = H(roll_{k-1} || H(F_k))
RECURSIVE RollOf(_)
RollOf(c) ==
    IF Len(c) = 1 THEN Digest(c[1].alg, FragDigest(c[1]))
    ELSE Digest(c[Len(c)].alg,
                RollOf(SubSeq(c, 1, Len(c) - 1)) \o FragDigest(c[Len(c)]))

\* the anchor_point a reader finds in a signed fragment
EmbeddedAnchor(file) == rolling_hashes(file)[1].anchor

\* the anchor_point of the box placed directly before the moof box
InsertedAnchor(file) == file[FirstIndex(file, "moof") - 1].anchor

ChainIsPlain == \A i \in 1..Len(chain) : chain[i].f \in PlainFrags

\* C1: after fragments F_0..F_k (k >= 1) were signed, each by
\* shift_rolling_hash followed by add_rolling_hash_fragment on the same
\* BmffHash, previous_hash = roll_{k-1}, rolling_hash =
\* H(roll_{k-1} || H(F_k minus excluded bytes)) and the anchor_point embedded
\* in the signed F_k is roll_{k-1}.
C1_RollingChain ==
    (phase = "idle" /\ Len(chain) >= 2 /\ ChainIsPlain) =>
        LET k == Len(chain)
            rollPrev == RollOf(SubSeq(chain, 1, k - 1))
        IN
        /\ previous_hash(bmff) = Some(rollPrev)
        /\ current_hash(bmff) =
              Some(Digest(chain[k].alg, rollPrev \o FragDigest(chain[k])))
        /\ IsSome(out[chain[k].f])
        /\ EmbeddedAnchor(Unwrap(out[chain[k].f])) = Some(rollPrev)

C1_Witness == phase = "idle" /\ Len(chain) = 3 /\ ChainIsPlain

FirstFragmentSigned ==
    res.op = "add" /\ res.ok /\ IsNone(res.prev) /\ res.f \in PlainFrags

C6_ErrorKeepsRollingState ==
    /\ (res.op = "add" /\ ~res.ok) =>
          (previous_hash(bmff) = res.prev /\ current_hash(bmff) = res.roll)
    /\ (res.op = "add" /\ res.ok /\ res.afterFail) =>
          InsertedAnchor(Unwrap(out[res.f])) = res.fprev

C6_Witness ==
    res.op = "add" /\ res.ok /\ res.afterFail /\ IsSome(res.fprev)

\* C7: a failed signing call leaves nothing behind: the output tree after
\* the failed call is the output tree before it.
C7_FailureLeavesNoOutput ==
    [][(res'.op = "add" /\ ~res'.ok) => out' = out]_vars

-----------------------------------------------------------------------------
\* Merkle tree (utils/merkle C2PAMerkleTree) and MerkleMap::check_merkle_tree

\* C2PAMerkleTree::to_layout(n): the widths [n, ceil(n/2), .., 1]
RECURSIVE to_layout(_)
to_layout(n) == IF n <= 1 THEN <<n>> ELSE <<n>> \o to_layout((n + 1) \div 2)

\* one layer up: pairs are hashed, an odd right-edge node is promoted unchanged
RECURSIVE NextLayer(_, _)
NextLayer(layer, alg) ==
    IF Len(layer) = 0 THEN <<>>
    ELSE IF Len(layer) = 1 THEN <<layer[1]>>
    ELSE <<concat_and_hash(alg, layer[1], Some(layer[2]))>>
         \o NextLayer(SubSeq(layer, 3, Len(layer)), alg)

\* C2PAMerkleTree::from_leaves(leaves, alg, false).layers
RECURSIVE from_leaves(_, _)
from_leaves(leaves, alg) ==
    IF Len(leaves) <= 1 THEN <<leaves>>
    ELSE <<leaves>> \o from_leaves(NextLayer(leaves, alg), alg)

\* C2PAMerkleTree::get_proof_by_index(i, max_proofs) on the given layers
RECURSIVE get_proof_by_index(_, _, _)
get_proof_by_index(layers, index, max_proofs) ==
    IF Len(layers) = 0 \/ max_proofs = 0 THEN <<>>
    ELSE LET layer == Head(layers)
             sibling == IF index % 2 = 1 THEN index - 1 ELSE index + 1
         IN IF sibling < Len(layer)
            THEN <<layer[sibling + 1]>>
                 \o get_proof_by_index(Tail(layers), index \div 2, max_proofs - 1)
            ELSE get_proof_by_index(Tail(layers), index \div 2, max_proofs)

\* (n as f32).log2().ceil()
RECURSIVE CeilLog2(_)
CeilLog2(n) == IF n <= 1 THEN 0 ELSE 1 + CeilLog2((n + 1) \div 2)

\* the Option<VecByteBuf> a signer stores for a proof: None when it is empty
ProofOption(proof) == IF Len(proof) = 0 THEN None ELSE Some(proof)

NewMerkleMap(uid, lid, count, alg, init_hash, hashes) ==
    [unique_id |-> uid, local_id |-> lid, count |-> count, alg |-> alg,
     init_hash |-> init_hash, hashes |-> hashes]

\* MerkleMap::hash_check
hash_check(mm, indx, merkle_hash) ==
    indx < Len(mm.hashes) /\ mm.hashes[indx + 1] = merkle_hash

\* a mutated sibling test that is off by one for the left node
has_sibling_OffByOne(is_right, index, layer) ==
    IF is_right THEN index - 1 < layer ELSE index + 1 <= layer

\* the test whether the node at index has a sibling in a layer of that width
has_sibling(is_right, index, layer) ==
    IF is_right THEN index - 1 < layer ELSE index + 1 < layer

\* the proof playback loop; valid = FALSE is the early "return false"
RECURSIVE Playback(_, _, _, _, _, _, _)
Playback(layers, row, alg, hashes, index, hash, proof_index) ==
    IF Len(layers) = 0 \/ Head(layers) = row
    THEN [valid |-> TRUE, index |-> index, hash |-> hash]
    ELSE LET is_right == index % 2 = 1 IN
         IF has_sibling(is_right, index, Head(layers))
         THEN IF proof_index < Len(hashes)
              THEN LET proof_hash == hashes[proof_index + 1] IN
                   Playback(Tail(layers), row, alg, hashes, index \div 2,
                            IF is_right
                            THEN concat_and_hash(alg, proof_hash, Some(hash))
                            ELSE concat_and_hash(alg, hash, Some(proof_hash)),
                            proof_index + 1)
              ELSE [valid |-> FALSE, index |-> index, hash |-> hash]
         ELSE Playback(Tail(layers), row, alg, hashes, index \div 2, hash, proof_index)

\* the empty proof playback loop
RECURSIVE EmptyPlayback(_, _, _)
EmptyPlayback(layers, row, index) ==
    IF Len(layers) = 0 \/ Head(layers) = row THEN index
    ELSE EmptyPlayback(Tail(layers), row, index \div 2)

\* MerkleMap::check_merkle_tree(alg, hash, location, proof)
check_merkle_tree(mm, alg, hash, location, proof) ==
    IF location >= mm.count THEN FALSE
    ELSE LET layers == to_layout(mm.count) IN
         IF IsSome(proof)
         THEN LET p == Playback(layers, Len(mm.hashes), alg, Unwrap(proof),
                                location, hash, 0)
              IN p.valid /\ hash_check(mm, p.index, p.hash)
         ELSE hash_check(mm, EmptyPlayback(layers, Len(mm.hashes), location), hash)

-----------------------------------------------------------------------------
\* check_merkle_tree exercised on trees of 1..MaxLeaves leaves

TreeAlg == "sha256"
Leaf(i) == Digest(TreeAlg, <<i>>)
Leaves(n) == [i \in 1..n |-> Leaf(i - 1)]
Layers(n) == from_leaves(Leaves(n), TreeAlg)

\* the MerkleMap a signer stores for n leaves: the row at height ceil(log2 n)
RootMap(n) ==
    NewMerkleMap(1, 1, n, Some(TreeAlg), None, Layers(n)[CeilLog2(n) + 1])

\* the proof the builder emits for leaf i of n
BuilderProof(n, i) == get_proof_by_index(Layers(n), i, CeilLog2(n))

\* a hash that is no node of any tree
Foreign == Digest(TreeAlg, <<99>>)

\* proofs a caller may present, derived from the builder's proof for leaf j
ProofVariants(n, j) ==
    LET p == BuilderProof(n, j) IN
    {ProofOption(p), Some(p), None, Some(Append(p, Foreign))}
    \cup (IF Len(p) > 0
          THEN {ProofOption(SubSeq(p, 1, Len(p) - 1)),
                Some([p EXCEPT ![1] = Foreign]),
                Some(Append(p, p[Len(p)]))}
          ELSE {})

TreeInit ==
    /\ leafCount = 1
    /\ query = NoQuery
    /\ verdict = FALSE

EngineIdle ==
    /\ bmff = NewBmffHash("sha256")
    /\ media = Originals
    /\ out = [n \in FileNames |-> None]
    /\ res = NoRes
    /\ chain = <<>>
    /\ phase = "idle"
    /\ nops = 0

\* a signer builds the tree over n leaves
FromLeaves ==
    /\ \E n \in 1..MaxLeaves :
        /\ leafCount' = n
        /\ query' = NoQuery
        /\ verdict' = FALSE
    /\ UNCHANGED <<engineVars, verifyVars, liveVars, storeVars, utilVars>>

\* a verifier checks leaf i at a claimed location with a presented proof
CheckMerkleTree ==
    /\ ~query.asked
    /\ \E i \in 0..(leafCount - 1), loc \in 0..leafCount, j \in 0..(leafCount - 1) :
        \E proof \in ProofVariants(leafCount, j) :
            /\ query' = [asked |-> TRUE, leaf |-> i, location |-> loc, proof |-> proof]
            /\ verdict' = check_merkle_tree(RootMap(leafCount), TreeAlg, Leaf(i), loc, proof)
    /\ UNCHANGED leafCount
    /\ UNCHANGED <<engineVars, verifyVars, liveVars, storeVars, utilVars>>

TreeNext == FromLeaves \/ CheckMerkleTree

InitTree == EngineIdle /\ TreeInit /\ VerifyIdle /\ LiveIdle /\ StoreIdle /\ UtilIdle

SpecTree == InitTree /\ [][TreeNext]_vars

ProofList(proof) == IF IsSome(proof) THEN Unwrap(proof) ELSE <<>>

QueryIsBuilders ==
    /\ query.asked
    /\ query.location = query.leaf
    /\ ProofList(query.proof) = BuilderProof(leafCount, query.leaf)

\* the number of layers below the root at which leaf i has a sibling
RECURSIVE SiblingCount(_, _)
SiblingCount(n, i) ==
    IF n <= 1 THEN 0
    ELSE (IF (IF i % 2 = 1 THEN i - 1 ELSE i + 1) < n THEN 1 ELSE 0)
         + SiblingCount((n + 1) \div 2, i \div 2)

\* C8: for every leaf count n >= 1 and leaf index i < n, check_merkle_tree
\* with the root row stored accepts leaf i with the proof made of exactly the
\* sibling hashes on its path (none for a layer where the node is promoted).
C8_BuilderProofAccepted ==
    QueryIsBuilders =>
        /\ verdict = TRUE
        /\ Len(ProofList(query.proof)) = SiblingCount(leafCount, query.leaf)

\* leaf 4 of 5 is promoted twice and has a one-hash proof
C8_Witness ==
    /\ QueryIsBuilders /\ leafCount = 5 /\ query.leaf = 4
    /\ Len(ProofList(query.proof)) = 1 /\ verdict = TRUE

\* C9: check_merkle_tree returns true if and only if location is the leaf's
\* index and the proof is exactly the one the builder emits for that index.
C9_AcceptsOnlyBuildersProof == query.asked => (verdict = QueryIsBuilders)

-----------------------------------------------------------------------------
\* Merkle-group signing: BmffHash::add_merkle_for_fragmented and
\* BmffHash::update_fragmented_inithash

\* the placeholder init hash: zero bytes of digest length
ZeroHash == <<0>>

\* a path the signer works on: a file of the output tree or an original
OutPath(n) == [tree |-> "out", name |-> n]
MediaPath(n) == [tree |-> "media", name |-> n]

ReadFile(m, o, p) == IF p.tree = "out" THEN o[p.name] ELSE m[p.name]
WriteMedia(m, p, file) ==
    IF p.tree = "media" THEN [m EXCEPT ![p.name] = Some(file)] ELSE m
WriteOut(o, p, file) ==
    IF p.tree = "out" THEN [o EXCEPT ![p.name] = Some(file)] ELSE o

\* the position of the first C2PA uuid box (bmff_merkle_box_infos[0].offset)
FirstC2paIndex(file) ==
    CHOOSE i \in 1..Len(file) :
        IsC2paBox(file[i]) /\ \A j \in 1..(i - 1) : ~IsC2paBox(file[j])

\* utils::live::replace_c2pa_box with a known offset: the box at the offset
\* is replaced, what precedes and follows it stays
replace_c2pa_box(file, at, box) == [file EXCEPT ![at] = box]

\* C2PAMerkleTree::dummy_tree(n, alg).layers
dummy_tree(n, alg) == from_leaves([i \in 1..n |-> Digest(alg, <<0>>)], alg)

\* the copy loop: a fragment already in the output tree is used from there,
\* any other is copied and used from its original path
RECURSIVE CopyFragments(_, _, _, _)
CopyFragments(fps, m, o, fragments) ==
    IF Len(fps) = 0 THEN [ok |-> TRUE, out |-> o, fragments |-> fragments]
    ELSE LET f == Head(fps) IN
         IF IsSome(o[f])
         THEN CopyFragments(Tail(fps), m, o, Append(fragments, OutPath(f)))
         ELSE IF IsNone(m[f])
         THEN [ok |-> FALSE, out |-> o, fragments |-> fragments]
         ELSE CopyFragments(Tail(fps), m, [o EXCEPT ![f] = m[f]],
                            Append(fragments, MediaPath(f)))

\* a mutated placeholder that never carries a proof
placeholder_proof_Empty(dummy, location, max_proofs) == <<>>

\* the proof of dummy hashes that fixes the size of the box
placeholder_proof(dummy, location, max_proofs) ==
    get_proof_by_index(dummy, location, max_proofs)

\* a mutated row: the leaves instead of the row at height max_proofs
merkle_row_Leaves(m_tree, max_proofs) == m_tree[1]

\* the row stored in the MerkleMap: m_tree.layers[max_proofs]
merkle_row(m_tree, max_proofs) == m_tree[max_proofs + 1]

\* the placeholder loop, from fragment number location on; map collects
\* location_to_fragment_map
RECURSIVE InsertPlaceholders(_, _, _, _, _, _, _, _, _)
InsertPlaceholders(fragments, location, m, o, dummy, max_proofs, unique_id, local_id, map) ==
    IF location >= Len(fragments)
    THEN [ok |-> TRUE, err |-> "", media |-> m, out |-> o, map |-> map]
    ELSE
    LET seg == fragments[location + 1]
        file == Unwrap(ReadFile(m, o, seg))
        dest_path == IF Len(bmff_merkle(file)) = 0 THEN OutPath(seg.name) ELSE seg
        mm == MerkleBox(unique_id, local_id, location,
                        ProofOption(placeholder_proof(dummy, location, max_proofs)))
        bad == [ok |-> FALSE, err |-> "BadParam", media |-> m, out |-> o, map |-> map]
    IN
    IF CountPath(file, "moof") # 1 THEN bad
    ELSE IF CountPath(file, "mdat") # 1 THEN bad
    ELSE IF Len(bmff_merkle(file)) > 1 \/ Len(bmff_merkle_box_infos(file)) > 1 THEN bad
    ELSE IF Len(bmff_merkle(file)) = 0
    THEN InsertPlaceholders(fragments, location + 1, m,
             WriteOut(o, dest_path, insert_data_at(file, FirstIndex(file, "moof"), mm)),
             dummy, max_proofs, unique_id, local_id, Append(map, dest_path))
    ELSE LET replaced == replace_c2pa_box(file, FirstC2paIndex(file), mm) IN
         InsertPlaceholders(fragments, location + 1,
             WriteMedia(m, seg, replaced), WriteOut(o, seg, replaced),
             dummy, max_proofs, unique_id, local_id, Append(map, dest_path))

\* the loop that replaces every placeholder proof by the real one
RECURSIVE FinalizeProofs(_, _, _, _, _, _)
FinalizeProofs(map, i, m, o, layers, max_proofs) ==
    IF i >= Len(map) THEN [ok |-> TRUE, err |-> "", media |-> m, out |-> o]
    ELSE
    LET dest_path == map[i + 1]
        file == Unwrap(ReadFile(m, o, dest_path))
        bmff_mm == bmff_merkle(file)[1]
        proof == get_proof_by_index(layers, bmff_mm.location, max_proofs)
        final == IF Len(proof) > 0 THEN [bmff_mm EXCEPT !.hashes = Some(proof)]
                 ELSE bmff_mm
        replaced == replace_c2pa_box(file, FirstC2paIndex(file), final)
    IN
    IF Len(bmff_merkle(file)) # 1 \/ Len(bmff_merkle_box_infos(file)) # 1
    THEN [ok |-> FALSE, err |-> "InvalidAsset", media |-> m, out |-> o]
    ELSE FinalizeProofs(map, i + 1, WriteMedia(m, dest_path, replaced),
                        WriteOut(o, dest_path, replaced), layers, max_proofs)

SameIds(a, c) == a.unique_id = c.unique_id /\ a.local_id = c.local_id

\* the position in mm_vec of the first MerkleMap with the ids of x, or 0
FindIndex(mm_vec, x) ==
    IF \E i \in 1..Len(mm_vec) : SameIds(mm_vec[i], x)
    THEN CHOOSE i \in 1..Len(mm_vec) :
            SameIds(mm_vec[i], x) /\ \A j \in 1..(i - 1) : ~SameIds(mm_vec[j], x)
    ELSE 0

\* a mutated insert that always appends
InsertMerkleMap_Append(merkle, mm) ==
    IF IsSome(merkle) THEN Some(Append(Unwrap(merkle), mm)) ELSE Some(<<mm>>)

\* the insert at the end of add_merkle_for_fragmented: replace the map with
\* the same ids, otherwise append; the first map initialises the list
InsertMerkleMap(merkle, mm) ==
    IF IsSome(merkle)
    THEN LET list == Unwrap(merkle)
             at == FindIndex(list, mm)
         IN IF at > 0 THEN Some([list EXCEPT ![at] = mm])
            ELSE Some(Append(list, mm))
    ELSE Some(<<mm>>)

\* BmffHash::add_merkle_for_fragmented(alg, asset_path, fragment_paths,
\* output_file, local_id, unique_id) on assertion b, originals m and output
\* tree o; fps names the fragments, in order
add_merkle_for_fragmented(b, m, o, alg, fps, local_id, unique_id_opt) ==
    LET max_proofs == CeilLog2(Len(fps))
        unique_id == IF IsSome(unique_id_opt) THEN Unwrap(unique_id_opt) ELSE local_id
        cp == CopyFragments(fps, m, o, <<>>)
        fragments == cp.fragments
        o1 == IF IsNone(cp.out[InitName])
              THEN [cp.out EXCEPT ![InitName] = m[InitName]] ELSE cp.out
        dummy == dummy_tree(Len(fragments), alg)
        ph == InsertPlaceholders(fragments, 0, m, o1, dummy, max_proofs,
                                 unique_id, local_id, <<>>)
        leaves == [i \in 1..Len(ph.map) |->
                      leaf_hash(alg, Unwrap(ReadFile(ph.media, ph.out, ph.map[i])),
                                b.exclusions)]
        m_tree == from_leaves(leaves, alg)
        fin == FinalizeProofs(ph.map, 0, ph.media, ph.out, m_tree, max_proofs)
        mm == NewMerkleMap(unique_id, local_id, Len(fragments), Some(alg),
                           Some(ZeroHash), merkle_row(m_tree, max_proofs))
    IN
    IF ~cp.ok THEN Err("Io", b, m, cp.out)
    ELSE IF IsNone(cp.out[InitName]) /\ IsNone(m[InitName]) THEN Err("Io", b, m, cp.out)
    ELSE IF ~ph.ok THEN Err(ph.err, b, ph.media, ph.out)
    ELSE IF ~SupportedAlg(alg) THEN Err("UnsupportedType", b, ph.media, ph.out)
    ELSE IF ~fin.ok THEN Err(fin.err, b, fin.media, fin.out)
    ELSE Ok([b EXCEPT !.merkle = InsertMerkleMap(b.merkle, mm)], fin.media, fin.out)

\* the algorithm update_fragmented_inithash hashes the init file with
InitHashAlg(b) ==
    IF IsSome(b.merkle)
    THEN LET list == Unwrap(b.merkle) IN
         IF \E i \in 1..Len(list) : IsSome(list[i].alg)
         THEN Unwrap(list[CHOOSE i \in 1..Len(list) :
                        IsSome(list[i].alg)
                        /\ \A j \in 1..(i - 1) : IsNone(list[j].alg)].alg)
         ELSE IF IsSome(b.alg) THEN Unwrap(b.alg) ELSE "sha256"
    ELSE LET rh == Unwrap(b.rolling_hash) IN
         IF IsSome(rh.alg) THEN Unwrap(rh.alg)
         ELSE IF IsSome(b.alg) THEN Unwrap(b.alg) ELSE "sha256"

\* BmffHash::update_fragmented_inithash(asset_path), asset_path being the
\* init file of the output tree
update_fragmented_inithash(b, m, o) ==
    IF IsNone(b.merkle) /\ IsNone(b.rolling_hash) THEN Err("BadParam", b, m, o)
    ELSE IF IsNone(o[InitName]) THEN Err("Io", b, m, o)
    ELSE IF ~SupportedAlg(InitHashAlg(b)) THEN Err("UnsupportedType", b, m, o)
    ELSE
    LET hash == hash_stream_by_alg(InitHashAlg(b), Unwrap(o[InitName]), b.exclusions) IN
    IF IsSome(b.merkle)
    THEN Ok([b EXCEPT !.merkle =
                Some([i \in 1..Len(Unwrap(b.merkle)) |->
                         [Unwrap(b.merkle)[i] EXCEPT !.init_hash = Some(hash)]])],
            m, o)
    ELSE Ok([b EXCEPT !.rolling_hash =
                Some([Unwrap(b.rolling_hash) EXCEPT !.init_hash = Some(hash)])],
            m, o)

-----------------------------------------------------------------------------
\* The verifier: BmffHash::verify_stream_segment and verify_stream_segments

VOk == [ok |-> TRUE, err |-> "", msg |-> ""]
HashMismatch(msg) == [ok |-> FALSE, err |-> "HashMismatch", msg |-> msg]
UnsupportedType == [ok |-> FALSE, err |-> "UnsupportedType", msg |-> ""]
\* an index out of bounds: the thread panics
Panic == [ok |-> FALSE, err |-> "panic", msg |-> ""]

\* self.alg, else the caller's alg, else sha256
CurrAlg(b, alg) ==
    IF IsSome(b.alg) THEN Unwrap(b.alg)
    ELSE IF IsSome(alg) THEN Unwrap(alg) ELSE "sha256"

\* hash_utils::verify_stream_by_alg
verify_stream_by_alg(alg, hash, file, excl) ==
    SupportedAlg(alg) /\ hash_stream_by_alg(alg, file, excl) = hash

\* mm_vec.iter().find(|mm| ids match)
FindMerkleMap(mm_vec, bmff_mm) ==
    IF FindIndex(mm_vec, bmff_mm) > 0 THEN Some(mm_vec[FindIndex(mm_vec, bmff_mm)])
    ELSE None

MapAlg(mm, curr_alg) == IF IsSome(mm.alg) THEN Unwrap(mm.alg) ELSE curr_alg

\* verify_stream_segment: the loop over the BmffMerkleMaps of the fragment
RECURSIVE SegmentMerkleLoop(_, _, _, _, _)
SegmentMerkleLoop(boxes, b, curr_alg, init_stream, fragment_stream) ==
    IF Len(boxes) = 0 THEN VOk
    ELSE
    LET bmff_mm == Head(boxes)
        found == FindMerkleMap(Unwrap(b.merkle), bmff_mm)
        mm == Unwrap(found)
        alg == MapAlg(mm, curr_alg)
        hash == hash_stream_by_alg(alg, fragment_stream, b.exclusions)
    IN
    IF IsNone(found) THEN HashMismatch("Fragment had no MerkleMap")
    ELSE IF IsSome(mm.init_hash)
    THEN IF ~verify_stream_by_alg(alg, Unwrap(mm.init_hash), init_stream, b.exclusions)
         THEN HashMismatch("BMFF inithash mismatch")
         ELSE IF ~check_merkle_tree(mm, alg, hash, bmff_mm.location, bmff_mm.hashes)
         THEN HashMismatch("Fragment not valid")
         ELSE SegmentMerkleLoop(Tail(boxes), b, curr_alg, init_stream, fragment_stream)
    ELSE SegmentMerkleLoop(Tail(boxes), b, curr_alg, init_stream, fragment_stream)

\* BmffHash::verify_stream_hash as reached from the rolling branch (no file
\* level hash, no merkle): the init hash of the RollingHash is checked
verify_stream_hash(b, reader, alg) ==
    LET curr_alg == CurrAlg(b, alg)
        rh == Unwrap(b.rolling_hash)
    IN
    IF IsSome(b.hash) /\ ~verify_stream_by_alg(curr_alg, Unwrap(b.hash), reader, b.exclusions)
    THEN HashMismatch("BMFF file level hash mismatch")
    ELSE IF IsNone(b.merkle) /\ IsSome(b.rolling_hash) /\ IsSome(rh.init_hash)
            /\ ~verify_stream_by_alg(curr_alg, Unwrap(rh.init_hash), reader, b.exclusions)
    THEN HashMismatch("BMFF init file hash mismatch")
    ELSE VOk

\* a mutated rolling branch that checks the anchor but never compares the
\* recomputed rolling hash with the stored one
RollingSegment_NoCompare(b, curr_alg, fragment_stream) ==
    LET rh == Unwrap(b.rolling_hash)
        boxes == rolling_hashes(fragment_stream)
    IN
    IF IsSome(rh.previous_hash) /\ Len(boxes) = 0 THEN Panic
    ELSE IF IsSome(rh.previous_hash) /\ IsNone(boxes[1].anchor)
    THEN HashMismatch("Missing Anchor Point")
    ELSE IF IsSome(rh.previous_hash) /\ Unwrap(rh.previous_hash) # Unwrap(boxes[1].anchor)
    THEN HashMismatch("Previous Hash does not match Fragment Anchor Point")
    ELSE IF IsNone(rh.rolling_hash) THEN HashMismatch("Asset File has no Rolling Hash")
    ELSE VOk

\* verify_stream_segment: the rolling branch after the init hash check
RollingSegment(b, curr_alg, fragment_stream) ==
    LET rh == Unwrap(b.rolling_hash)
        boxes == rolling_hashes(fragment_stream)
        frag_hash == hash_stream_by_alg(curr_alg, fragment_stream, b.exclusions)
        lr == hash_pair(rh.previous_hash, frag_hash)
        ref_hash == concat_and_hash(curr_alg, lr[1], lr[2])
        anchorResult ==
            IF IsNone(rh.previous_hash) THEN VOk
            ELSE IF Len(boxes) > 1 \/ Len(bmff_merkle_box_infos(fragment_stream)) > 1
            THEN HashMismatch("BMFF Fragments shouldn't have more than 1 BmffMerkleMap")
            ELSE IF Len(boxes) = 0 THEN Panic
            ELSE IF IsNone(boxes[1].anchor) THEN HashMismatch("Missing Anchor Point")
            ELSE IF Unwrap(rh.previous_hash) # Unwrap(boxes[1].anchor)
            THEN HashMismatch("Previous Hash does not match Fragment Anchor Point")
            ELSE VOk
    IN
    IF ~anchorResult.ok THEN anchorResult
    ELSE IF IsNone(rh.rolling_hash) THEN HashMismatch("Asset File has no Rolling Hash")
    ELSE IF ~SupportedAlg(curr_alg) THEN UnsupportedType
    ELSE IF ref_hash # Unwrap(rh.rolling_hash)
    THEN HashMismatch("Fragment Hash does not match Rolling Hash")
    ELSE VOk

\* BmffHash::verify_stream_segment(init_stream, fragment_stream, alg)
verify_stream_segment(b, init_stream, fragment_stream, alg) ==
    LET curr_alg == CurrAlg(b, alg) IN
    IF IsSome(b.hash)
    THEN HashMismatch("Hash value should not be present for a fragmented BMFF asset")
    ELSE IF IsSome(b.merkle) /\ IsSome(b.rolling_hash)
    THEN HashMismatch("A BMFF asset should not have both MerkleMap and RollingHash")
    ELSE IF IsSome(b.merkle)
    THEN IF Len(bmff_merkle(fragment_stream)) = 0
         THEN HashMismatch("Fragment had no MerkleMap")
         ELSE SegmentMerkleLoop(bmff_merkle(fragment_stream), b, curr_alg,
                                init_stream, fragment_stream)
    ELSE IF IsSome(b.rolling_hash)
    THEN IF ~verify_stream_hash(b, init_stream, Some(curr_alg)).ok
         THEN verify_stream_hash(b, init_stream, Some(curr_alg))
         ELSE RollingSegment(b, curr_alg, fragment_stream)
    ELSE HashMismatch("Merkle value must be present for a fragmented BMFF asset")

\* verify_stream_segments: the loop over the BmffMerkleMaps of one fragment;
\* init_hashes is the cache of init hashes already verified
RECURSIVE SegmentsMerkleLoop(_, _, _, _, _, _)
SegmentsMerkleLoop(boxes, b, curr_alg, init_stream, fragment_stream, init_hashes) ==
    IF Len(boxes) = 0 THEN [r |-> VOk, init_hashes |-> init_hashes]
    ELSE
    LET bmff_mm == Head(boxes)
        found == FindMerkleMap(Unwrap(b.merkle), bmff_mm)
        mm == Unwrap(found)
        alg == MapAlg(mm, curr_alg)
        hash == hash_stream_by_alg(alg, fragment_stream, b.exclusions)
        init_hash == Unwrap(mm.init_hash)
        fail(msg) == [r |-> HashMismatch(msg), init_hashes |-> init_hashes]
    IN
    IF IsNone(found) THEN fail("Fragment had no MerkleMap")
    ELSE IF IsSome(mm.init_hash)
    THEN IF init_hash \notin init_hashes
            /\ ~verify_stream_by_alg(alg, init_hash, init_stream, b.exclusions)
         THEN fail("BMFF inithash mismatch")
         ELSE IF ~SupportedAlg(alg)
         THEN [r |-> UnsupportedType, init_hashes |-> init_hashes]
         ELSE IF ~check_merkle_tree(mm, alg, hash, bmff_mm.location, bmff_mm.hashes)
         THEN fail("Fragment not valid")
         ELSE SegmentsMerkleLoop(Tail(boxes), b, curr_alg, init_stream, fragment_stream,
                                 init_hashes \cup {init_hash})
    ELSE SegmentsMerkleLoop(Tail(boxes), b, curr_alg, init_stream, fragment_stream,
                            init_hashes)

\* verify_stream_segments: the loop over the fragment paths
RECURSIVE SegmentsLoop(_, _, _, _, _)
SegmentsLoop(fragment_paths, b, curr_alg, init_stream, init_hashes) ==
    IF Len(fragment_paths) = 0 THEN VOk
    ELSE
    LET fragment_stream == Head(fragment_paths)
        one == SegmentsMerkleLoop(bmff_merkle(fragment_stream), b, curr_alg,
                                  init_stream, fragment_stream, init_hashes)
    IN
    IF Len(bmff_merkle(fragment_stream)) = 0 THEN HashMismatch("Fragment had no MerkleMap")
    ELSE IF ~one.r.ok THEN one.r
    ELSE SegmentsLoop(Tail(fragment_paths), b, curr_alg, init_stream, one.init_hashes)

\* BmffHash::verify_stream_segments(init_stream, fragment_paths, alg)
verify_stream_segments(b, init_stream, fragment_paths, alg) ==
    IF IsSome(b.hash)
    THEN HashMismatch("Hash value should not be present for a fragmented BMFF asset")
    ELSE IF IsSome(b.merkle)
    THEN SegmentsLoop(fragment_paths, b, CurrAlg(b, alg), init_stream, {})
    ELSE HashMismatch("Merkle value must be present for a fragmented BMFF asset")

-----------------------------------------------------------------------------
\* Merkle groups signed and then presented to the verifier

MaxMerkleOps == 2

LocalIds == {1, 2}

\* the fragment lists a caller hands to add_merkle_for_fragmented: every run
\* of consecutive well-formed fragments, and lists holding another input
FragmentGroups ==
    {[i \in 1..(hi - lo + 1) |-> lo + i - 1] : lo \in PlainFrags, hi \in PlainFrags}
    \cup {<<1, TwoMoof>>, <<PreBoxed>>, <<1, Missing>>}

AddMerkleForFragmented ==
    /\ nops < MaxMerkleOps
    /\ ~vcall.asked
    /\ \E fps \in FragmentGroups, alg \in Algs, local_id \in LocalIds :
        LET r == add_merkle_for_fragmented(bmff, media, out, alg, fps, local_id, None) IN
        /\ Len(fps) > 0
        /\ bmff' = r.bmff
        /\ media' = r.media
        /\ out' = r.out
        /\ res' = [NoRes EXCEPT !.op = "merkle", !.ok = r.ok, !.err = r.err, !.alg = alg]
    /\ nops' = nops + 1
    /\ UNCHANGED <<chain, phase>>
    /\ UNCHANGED <<treeVars, verifyVars, liveVars, storeVars, utilVars>>

\* one update_fragmented_inithash call on the engine's assertion
InithashStep ==
    /\ LET r == update_fragmented_inithash(bmff, media, out) IN
        /\ bmff' = r.bmff
        /\ media' = r.media
        /\ out' = r.out
        /\ res' = [NoRes EXCEPT !.op = "inithash", !.ok = r.ok, !.err = r.err]
    /\ nops' = nops + 1
    /\ UNCHANGED <<chain, phase>>
    /\ UNCHANGED <<treeVars, verifyVars, liveVars, storeVars, utilVars>>

UpdateFragmentedInithash ==
    /\ nops < MaxMerkleOps
    /\ ~vcall.asked
    /\ InithashStep

\* a fragment whose media data was changed after signing
Tampered(file) ==
    [i \in 1..Len(file) |->
        IF file[i].path = "mdat" THEN [file[i] EXCEPT !.data = 99] ELSE file[i]]

\* a fragment whose BmffMerkleMap names the next location
Relocated(file) ==
    [i \in 1..Len(file) |->
        IF file[i].kind = "merkle" THEN [file[i] EXCEPT !.location = @ + 1] ELSE file[i]]

SignedFiles(o) == {Unwrap(o[n]) : n \in {k \in FragNames : IsSome(o[k])}}

\* the fragment streams a verifier may be handed
Candidates(m, o) ==
    SignedFiles(o)
    \cup {Tampered(file) : file \in SignedFiles(o)}
    \cup {Relocated(file) : file \in SignedFiles(o)}
    \cup {Unwrap(m[n]) : n \in {k \in PlainFrags : IsSome(m[k])}}

\* the assertion as decoded from a manifest: MerkleMap::init_hash is optional
WithoutInitHash(b) ==
    IF IsSome(b.merkle)
    THEN [b EXCEPT !.merkle =
            Some([i \in 1..Len(Unwrap(b.merkle)) |->
                     [Unwrap(b.merkle)[i] EXCEPT !.init_hash = None]])]
    ELSE b

\* the assertions a verifier may be handed for the signed stream
Manifests(b) ==
    {b, WithoutInitHash(b),
     [b EXCEPT !.rolling_hash = Some(NewRollingHash("sha256"))],
     [b EXCEPT !.merkle = None, !.rolling_hash = Some(NewRollingHash("sha256"))]}

VerifyStreamSegment ==
    /\ ~vcall.asked
    /\ IsSome(out[InitName])
    /\ \E manifest \in Manifests(bmff), fragment \in Candidates(media, out) :
        LET r == verify_stream_segment(manifest, Unwrap(out[InitName]), fragment, None) IN
        vcall' = [asked |-> TRUE, op |-> "segment", manifest |-> manifest,
                  init |-> Unwrap(out[InitName]), fragments |-> <<fragment>>,
                  ok |-> r.ok, err |-> r.err, msg |-> r.msg]
    /\ UNCHANGED <<engineVars, treeVars, liveVars, storeVars, utilVars>>

VerifyStreamSegments ==
    /\ ~vcall.asked
    /\ IsSome(out[InitName])
    /\ \E manifest \in Manifests(bmff), first \in SignedFiles(out),
          more \in {<<>>} \cup {<<c>> : c \in SignedFiles(out)}
                          \cup {<<Tampered(c)>> : c \in SignedFiles(out)} :
        LET fragment_paths == <<first>> \o more
            r == verify_stream_segments(manifest, Unwrap(out[InitName]), fragment_paths, None)
        IN
        vcall' = [asked |-> TRUE, op |-> "segments", manifest |-> manifest,
                  init |-> Unwrap(out[InitName]), fragments |-> fragment_paths,
                  ok |-> r.ok, err |-> r.err, msg |-> r.msg]
    /\ UNCHANGED <<engineVars, treeVars, liveVars, storeVars, utilVars>>

VerifyNext ==
    \/ AddMerkleForFragmented
    \/ UpdateFragmentedInithash
    \/ VerifyStreamSegment
    \/ VerifyStreamSegments

SpecVerify == Init /\ [][VerifyNext]_vars

\* the leaf hash of a presented fragment is accepted by the MerkleMap of the
\* manifest that matches the ids of box
ProofAccepted(manifest, fragment, box) ==
    LET found == FindMerkleMap(Unwrap(manifest.merkle), box)
        mm == Unwrap(found)
        alg == MapAlg(mm, CurrAlg(manifest, None))
    IN /\ IsSome(found)
       /\ check_merkle_tree(mm, alg,
                            hash_stream_by_alg(alg, fragment, manifest.exclusions),
                            box.location, box.hashes)

\* C10: in Merkle mode verify_stream_segment and verify_stream_segments
\* return Ok only if, for every BmffMerkleMap embedded in a presented
\* fragment, check_merkle_tree accepts the fragment's leaf hash against the
\* matching MerkleMap, whether or not that MerkleMap carries an init_hash.
C10_MerkleOkMeansProofChecked ==
    (vcall.asked /\ vcall.ok /\ IsSome(vcall.manifest.merkle)) =>
        \A k \in 1..Len(vcall.fragments) :
            \A x \in 1..Len(bmff_merkle(vcall.fragments[k])) :
                ProofAccepted(vcall.manifest, vcall.fragments[k],
                              bmff_merkle(vcall.fragments[k])[x])

\* with an init_hash in every MerkleMap the verifier does check every proof
VerifiedWithInitHash ==
    (vcall.asked /\ vcall.ok /\ IsSome(vcall.manifest.merkle)
     /\ \A i \in 1..Len(Unwrap(vcall.manifest.merkle)) :
            IsSome(Unwrap(vcall.manifest.merkle)[i].init_hash)) =>
        \A k \in 1..Len(vcall.fragments) :
            \A x \in 1..Len(bmff_merkle(vcall.fragments[k])) :
                ProofAccepted(vcall.manifest, vcall.fragments[k],
                              bmff_merkle(vcall.fragments[k])[x])

-----------------------------------------------------------------------------
\* The live coordinator: post_ingest and LiveSigner::sign. Every ingested
\* fragment spawns a rolling task on a thread of its own; nothing joins,
\* queues or locks the tasks of one representation. A task is sign_live_bmff
\* on a fresh builder (the state comes from the signed init file, is shifted
\* and extended by add_rolling_hash_fragment, and goes back into the signed
\* init file) followed by the push of the signed files.

LiveAlg == "sha256"

SetTask(k, pc, b) == [task EXCEPT ![k] = [pc |-> pc, bmff |-> b]]

\* post_ingest: the body is persisted and LiveSigner::sign spawns the task
Ingest ==
    /\ ingested < NumFrags
    /\ ingested' = ingested + 1
    /\ task' = SetTask(ingested + 1, "spawned", NewBmffHash(LiveAlg))
    /\ UNCHANGED initAssertion
    /\ UNCHANGED <<engineVars, treeVars, verifyVars, storeVars, utilVars>>

\* the task reads the signed init file and shifts the rolling state it finds
TaskLoad ==
    /\ \E k \in PlainFrags :
        /\ task[k].pc = "spawned"
        /\ task' = SetTask(k, "loaded",
                           IF IsSome(initAssertion)
                           THEN shift_rolling_hash(Unwrap(initAssertion))
                           ELSE NewBmffHash(LiveAlg))
    /\ UNCHANGED <<ingested, initAssertion>>
    /\ UNCHANGED <<engineVars, treeVars, verifyVars, storeVars, utilVars>>

\* the task signs its fragment
TaskSign ==
    /\ \E k \in PlainFrags :
        LET r == add_rolling_hash_fragment(task[k].bmff, media, out, LiveAlg, k) IN
        /\ task[k].pc = "loaded"
        /\ task' = SetTask(k, IF r.ok THEN "added" ELSE "failed", r.bmff)
        /\ media' = r.media
        /\ out' = r.out
    /\ UNCHANGED <<ingested, initAssertion>>
    /\ UNCHANGED <<bmff, res, chain, phase, nops>>
    /\ UNCHANGED <<treeVars, verifyVars, storeVars, utilVars>>

\* the task writes the assertion into the signed init file
TaskSave ==
    /\ \E k \in PlainFrags :
        /\ task[k].pc = "added"
        /\ initAssertion' = Some(update_fragmented_inithash(task[k].bmff, media, out).bmff)
        /\ task' = SetTask(k, "saved", task[k].bmff)
    /\ UNCHANGED ingested
    /\ UNCHANGED <<engineVars, treeVars, verifyVars, storeVars, utilVars>>

\* the task pushes the signed fragment and the signed init and ends
TaskForward ==
    /\ \E k \in PlainFrags :
        /\ task[k].pc = "saved"
        /\ task' = SetTask(k, "done", task[k].bmff)
    /\ UNCHANGED <<ingested, initAssertion>>
    /\ UNCHANGED <<engineVars, treeVars, verifyVars, storeVars, utilVars>>

LiveNext == Ingest \/ TaskLoad \/ TaskSign \/ TaskSave \/ TaskForward

SpecLive == Init /\ [][LiveNext]_vars

\* the fragments 1..n signed one after the other
RECURSIVE Sequential(_)
Sequential(n) ==
    IF n = 0 THEN <<>> ELSE Append(Sequential(n - 1), [f |-> n, alg |-> LiveAlg])

AllTasksDone == \A k \in PlainFrags : task[k].pc = "done"

\* the task holds the signed init file: it has read it and not yet written it
HoldsInit(k) == task[k].pc \in {"loaded", "added"}

\* the task has finished its work on the init file and the rolling state
Finished(k) == task[k].pc \in {"saved", "done"}

\* the task has started its work
Started(k) == task[k].pc \notin {"none", "spawned"}

\* C3: whatever the interleaving of the rolling tasks of consecutive
\* fragments, the rolling_hash finally stored in the signed init file is the
\* one that signing the fragments one after the other produces.
C3_InterleavingKeepsChain ==
    AllTasksDone =>
        /\ IsSome(initAssertion)
        /\ current_hash(Unwrap(initAssertion)) = Some(RollOf(Sequential(NumFrags)))

\* C4: the signing tasks of one representation execute in strictly
\* increasing fragment index order: the task of fragment j starts only after
\* the task of every earlier fragment i < j has finished its work on the init
\* file and the rolling state.
C4_TasksRunInIndexOrder ==
    \A i \in PlainFrags, j \in PlainFrags :
        (i < j /\ Started(j)) => Finished(i)

\* C5: at any time at most one signing task is reading, modifying or
\* writing the signed init file of a stream.
C5_InitFileExclusive ==
    \A i \in PlainFrags, j \in PlainFrags :
        (HoldsInit(i) /\ HoldsInit(j)) => i = j

-----------------------------------------------------------------------------
\* A rolling chain signed fragment by fragment and presented to
\* verify_stream_segment

MaxChainOps == 5

\* the fragments the chain is signed over: the well-formed ones and the one
\* that already carries a C2PA box
ChainFrags == PlainFrags \cup {PreBoxed}

ChainShift ==
    /\ nops < MaxChainOps
    /\ ~vcall.asked
    /\ ShiftStep

ChainAdd ==
    /\ nops < MaxChainOps
    /\ ~vcall.asked
    /\ \E f \in ChainFrags : AddFragmentStep(f, "sha256")

ChainInithash ==
    /\ nops < MaxChainOps
    /\ ~vcall.asked
    /\ InithashStep

\* a signed fragment whose FragmentRollingHash names another anchor_point
Reanchored(file) ==
    [i \in 1..Len(file) |->
        IF file[i].kind = "rolling" THEN [file[i] EXCEPT !.anchor = Some(Foreign)]
        ELSE file[i]]

\* a signed fragment whose FragmentRollingHash carries no anchor_point
Unanchored(file) ==
    [i \in 1..Len(file) |->
        IF file[i].kind = "rolling" THEN [file[i] EXCEPT !.anchor = None]
        ELSE file[i]]

\* the fragment streams a verifier of the rolling scheme may be handed
RollingCandidates(m, o) ==
    SignedFiles(o)
    \cup {Tampered(file) : file \in SignedFiles(o)}
    \cup {Reanchored(file) : file \in SignedFiles(o)}
    \cup {Unanchored(file) : file \in SignedFiles(o)}
    \cup {Unwrap(m[n]) : n \in {k \in PlainFrags : IsSome(m[k])}}

\* verify_stream_segment on the assertion the signer holds, the signed init
\* and a presented fragment
VerifyChainSegment ==
    /\ ~vcall.asked
    /\ IsSome(out[InitName])
    /\ \E fragment \in RollingCandidates(media, out) :
        LET r == verify_stream_segment(bmff, Unwrap(out[InitName]), fragment, None) IN
        vcall' = [asked |-> TRUE, op |-> "segment", manifest |-> bmff,
                  init |-> Unwrap(out[InitName]), fragments |-> <<fragment>>,
                  ok |-> r.ok, err |-> r.err, msg |-> r.msg]
    /\ UNCHANGED <<engineVars, treeVars, liveVars, storeVars, utilVars>>

ChainNext == ChainShift \/ ChainAdd \/ ChainInithash \/ VerifyChainSegment

SpecChain == Init /\ [][ChainNext]_vars

\* the assertion is the one produced by rolling-signing the last fragment
\* of the chain, and the verifier was given it
VerifiedAfterSigning == vcall.asked /\ phase = "idle" /\ Len(chain) >= 1

\* the signed F_k in the output tree
LastSigned == Unwrap(out[chain[Len(chain)].f])

Presented == vcall.fragments[1]

\* X differs from the signed F_k only outside the C2PA boxes
KeepsBoxes(x, signed) == bmff_merkle_box_infos(x) = bmff_merkle_box_infos(signed)

\* C11: for the init assertion produced by rolling-signing F_k,
\* verify_stream_segment returns Ok for a fragment X only if the non-excluded
\* bytes of X are those of the signed F_k, and an X that differs from the
\* signed F_k in a byte outside every exclusion range gets HashMismatch.
C11_OkOnlyForSignedBytes ==
    VerifiedAfterSigning =>
        /\ vcall.ok =>
              HashedBytes(Presented, bmff.exclusions)
                  = HashedBytes(LastSigned, bmff.exclusions)
        /\ (KeepsBoxes(Presented, LastSigned)
            /\ HashedBytes(Presented, bmff.exclusions)
                  # HashedBytes(LastSigned, bmff.exclusions)) =>
              vcall.err = "HashMismatch"

\* the second fragment of a chain was accepted, and a tampered copy of it
\* could be presented as well
C11_Witness ==
    /\ VerifiedAfterSigning /\ Len(chain) = 2 /\ vcall.ok
    /\ Presented = LastSigned

\* the anchor_point a reader finds in a fragment: None without a box
AnchorOf(file) ==
    IF Len(rolling_hashes(file)) = 0 THEN None ELSE rolling_hashes(file)[1].anchor

RollingMode(b) == IsNone(b.merkle) /\ IsSome(b.rolling_hash)

\* C12: in rolling mode a fragment is accepted only if its embedded
\* anchor_point equals the assertion's previous_hash (both absent, or both
\* present and equal).
C12_AnchorMatchesPreviousHash ==
    (vcall.asked /\ vcall.ok /\ RollingMode(vcall.manifest)) =>
        AnchorOf(Presented) = previous_hash(vcall.manifest)

-----------------------------------------------------------------------------
\* Both schemes populated in one assertion

BothPresent(b) == IsSome(b.merkle) /\ IsSome(b.rolling_hash)

\* C13: every verification entry point, given an assertion in which both
\* merkle and rolling_hash are populated, returns HashMismatch instead of
\* verifying under one of the two schemes.
C13_BothPresentIsHashMismatch ==
    (vcall.asked /\ BothPresent(vcall.manifest)) =>
        (~vcall.ok /\ vcall.err = "HashMismatch")

-----------------------------------------------------------------------------
\* The C2PA uuid boxes of a signed fragment

C2paBoxCount(file) == Cardinality({i \in 1..Len(file) : IsC2paBox(file[i])})

\* C14: after a successful add_rolling_hash_fragment the signed fragment in
\* the output tree contains exactly one C2PA uuid box, for every input
\* fragment that passes validation, an input that already carries one C2PA
\* box included.
C14_ExactlyOneC2paBox ==
    (res.op = "add" /\ res.ok) =>
        /\ IsSome(out[res.f])
        /\ C2paBoxCount(Unwrap(out[res.f])) = 1

-----------------------------------------------------------------------------
\* A rolling signer that may lose its in-memory state between two fragments
\* and rebuild it from the assertion kept in the signed init file

MaxRestartOps == 4

BmffFields == {"exclusions", "alg", "hash", "merkle", "rolling_hash"}
RollingFields == {"alg", "rolling_hash", "previous_hash", "init_hash"}
OptionalBmffFields == BmffFields \ {"exclusions"}

\* serde: a field marked skip_serializing_if = "Option::is_none" is written
\* only when it is Some, and then without the Option wrapper
Encode(rec, optional) ==
    [k \in {f \in DOMAIN rec : f \notin optional \/ IsSome(rec[f])} |->
        IF k \in optional THEN Unwrap(rec[k]) ELSE rec[k]]

\* serde: an Option field missing from the map is read as None
Decode(map, fields, optional) ==
    [k \in fields |->
        IF k \notin optional THEN map[k]
        ELSE IF k \in DOMAIN map THEN Some(map[k]) ELSE None]

\* a mutated encoder that leaves the RollingHash out of the map
to_assertion_NoRolling(b) ==
    Encode([b EXCEPT !.rolling_hash = None], OptionalBmffFields)

\* BmffHash::to_assertion: the CBOR map of the assertion
to_assertion(b) ==
    Encode([b EXCEPT !.rolling_hash =
                IF IsSome(b.rolling_hash)
                THEN Some(Encode(Unwrap(b.rolling_hash), RollingFields))
                ELSE None],
           OptionalBmffFields)

\* BmffHash::from_assertion
from_assertion(a) ==
    LET b == Decode(a, BmffFields, OptionalBmffFields) IN
    [b EXCEPT !.rolling_hash =
        IF IsSome(b.rolling_hash)
        THEN Some(Decode(Unwrap(b.rolling_hash), RollingFields, RollingFields))
        ELSE None]

\* one rolling task run to its end on the state the signer holds:
\* shift_rolling_hash, add_rolling_hash_fragment, update_fragmented_inithash,
\* and the assertion written into the signed init file
RestartSign ==
    /\ nops < MaxRestartOps
    /\ \E f \in PlainFrags :
        LET shifted == shift_rolling_hash(bmff)
            r == add_rolling_hash_fragment(shifted, media, out, LiveAlg, f)
            u == update_fragmented_inithash(r.bmff, r.media, r.out)
            done == r.ok /\ u.ok
        IN
        /\ bmff' = IF r.ok THEN u.bmff ELSE r.bmff
        /\ media' = r.media
        /\ out' = r.out
        /\ initAssertion' = IF done THEN Some(to_assertion(u.bmff)) ELSE initAssertion
        /\ res' = [op |-> "add", ok |-> done, err |-> IF r.ok THEN u.err ELSE r.err,
                   f |-> f, alg |-> LiveAlg,
                   prev |-> previous_hash(shifted),
                   roll |-> IF IsSome(initAssertion)
                            THEN current_hash(from_assertion(Unwrap(initAssertion)))
                            ELSE None,
                   afterFail |-> FALSE, fprev |-> None]
        /\ chain' = IF done THEN Append(chain, [f |-> f, alg |-> LiveAlg]) ELSE <<>>
        /\ phase' = IF ~done THEN "broken"
                    ELSE IF res.op = "restart" THEN "resumed" ELSE "idle"
    /\ nops' = nops + 1
    /\ UNCHANGED <<task, ingested>>
    /\ UNCHANGED <<treeVars, verifyVars, storeVars, utilVars>>

\* the signing process is restarted: the state in memory is gone and the next
\* task reads the assertion of the signed init file
Restart ==
    /\ IsSome(initAssertion)
    /\ res.op # "restart"
    /\ bmff' = from_assertion(Unwrap(initAssertion))
    /\ res' = [NoRes EXCEPT !.op = "restart"]
    /\ UNCHANGED <<media, out, chain, phase, nops>>
    /\ UNCHANGED <<treeVars, verifyVars, liveVars, storeVars, utilVars>>

RestartNext == RestartSign \/ Restart

SpecRestart == Init /\ [][RestartNext]_vars

\* C15: after rolling-signing some fragments, a task that rebuilds its state
\* from the signed init file alone signs the next fragment with previous_hash
\* equal to the rolling_hash retained in the init file, and produces the
\* rolling_hash of a run that was never restarted.
C15_RestartKeepsChain ==
    (res.op = "add" /\ phase = "resumed" /\ Len(chain) >= 2) =>
        /\ IsSome(res.roll)
        /\ res.prev = res.roll
        /\ res.prev = Some(RollOf(SubSeq(chain, 1, Len(chain) - 1)))
        /\ current_hash(bmff) = Some(RollOf(chain))
        /\ current_hash(from_assertion(Unwrap(initAssertion))) = Some(RollOf(chain))

\* F4 was signed on a state rebuilt from the init file after F1..F3
C15_Witness ==
    /\ res.op = "add"
    /\ phase = "resumed"
    /\ Len(chain) = 4
    /\ \A i \in 1..3 : chain[i].f = i

-----------------------------------------------------------------------------
\* The live coordinator's disk. A path is the list of its components,
\* <media>/<name>/<rep>/segment_<index>.m4s.

StreamName == "live"

\* u8::to_string
ToStr(n) == <<"0", "1", "2", "3", "4", "5", "6", "7", "8", "9">>[n + 1]

\* segment_<index>.m4s, the init segment having index init
SegmentFile(n) ==
    <<"segment_init.m4s", "segment_1.m4s", "segment_2.m4s", "segment_3.m4s",
      "segment_4.m4s", "segment_5.m4s", "segment_6.m4s", "segment_7.m4s",
      "segment_8.m4s", "segment_9.m4s">>[n + 1]

\* the ingest URI <rep>/segment_<index>.m4s
Uri(rep, n) == <<ToStr(rep), SegmentFile(n)>>

\* format!("{name}_{ty}") for the ForwardType names
TypedName(name, ty) ==
    CASE name = "live" /\ ty = "signed" -> "live_signed"
      [] name = "live" /\ ty = "rolling-hash" -> "live_rolling-hash"
      [] OTHER -> "_"

Parent(p) == SubSeq(p, 1, Len(p) - 1)
FileName(p) == p[Len(p)]

\* create_dir_all: the directory and every ancestor
Ancestors(p) == {SubSeq(p, 1, k) : k \in 1..Len(p)}

\* path lies below dir
Under(dir, p) == Len(p) > Len(dir) /\ SubSeq(p, 1, Len(dir)) = dir

IsRep(c) == \E r \in 0..9 : ToStr(r) = c
RepOf(c) == CHOOSE r \in 0..9 : ToStr(r) = c
IsSegment(c) == \E n \in 0..9 : SegmentFile(n) = c
IndexOf(c) == CHOOSE n \in 0..9 : SegmentFile(n) = c

\* Regexp::uri: the first match of (?P<rep>\d+)/segment_0*(?P<index>\d+|init)\.m4s
RegexpUri(p) ==
    LET hit(i) == IsRep(p[i]) /\ IsSegment(p[i + 1]) IN
    IF \E i \in 1..(Len(p) - 1) : hit(i)
    THEN LET i == CHOOSE i \in 1..(Len(p) - 1) :
                    hit(i) /\ \A j \in 1..(i - 1) : ~hit(j)
         IN [ok |-> TRUE, rep_id |-> RepOf(p[i]), index |-> IndexOf(p[i + 1])]
    ELSE [ok |-> FALSE, rep_id |-> 0, index |-> 0]

\* utility::is_fragment: the extension is m4s
is_fragment(p) == Len(p) > 0 /\ IsSegment(FileName(p))

\* utility::is_init: the file name contains init
is_init(p) == Len(p) > 0 /\ FileName(p) = SegmentFile(InitName)

\* LiveSigner::local_path: <media>/<name>[_<ty>]/<uri..>
local_path(name, uri, ty) ==
    MediaRoot \o <<IF IsSome(ty) THEN TypedName(name, Unwrap(ty)) ELSE name>> \o uri

\* LiveSigner::cdn_url: <target>/<name>[_<ty>]/<uri..>
cdn_url(name, uri, ty) ==
    <<"cdn">> \o <<IF IsSome(ty) THEN TypedName(name, Unwrap(ty)) ELSE name>> \o uri

\* LiveSigner::local: <media>/<name>/<rep_id>
local(name, rep_id) == MediaRoot \o <<name, ToStr(rep_id)>>

\* a mutated path_to_signed_path that drops the representation directory
path_to_signed_path_Flat(name, path, ty) ==
    LET q == [i \in 1..Len(path) |->
                 IF path[i] = name THEN TypedName(name, ty) ELSE path[i]]
    IN SelectSeq(q, LAMBDA c : ~IsRep(c))

\* LiveSigner::path_to_signed_path: every component equal to name becomes
\* <name>_<ty>
path_to_signed_path(name, path, ty) ==
    [i \in 1..Len(path) |->
        IF path[i] = name THEN TypedName(name, ty) ELSE path[i]]

\* LiveSigner::output
output(name, init, ty) == path_to_signed_path(name, init, ty)

\* LiveSigner::path_to_cdn_url: strip <media>, rename <name>, join to target
path_to_cdn_url(path, name, ty) ==
    LET uri == SubSeq(path, Len(MediaRoot) + 1, Len(path)) IN
    <<"cdn">> \o
    (IF IsSome(ty)
     THEN [i \in 1..Len(uri) |->
              IF uri[i] = name THEN TypedName(name, Unwrap(ty)) ELSE uri[i]]
     ELSE uri)

\* the disk and the CDN as one value
Disk == [fs |-> fs, dirs |-> dirs, pushed |-> pushed]
EmptyDisk == [fs |-> [p \in {} |-> None], dirs |-> {MediaRoot}, pushed |-> {}]

\* a file: its boxes, and the manifest store it carries (a signed init)
File(boxes, manifest) == [boxes |-> boxes, manifest |-> manifest]

WriteFile(fsys, p, file) ==
    [q \in DOMAIN fsys \cup {p} |-> IF q = p THEN file ELSE fsys[q]]

ReadBoxes(fsys, p) == IF p \in DOMAIN fsys THEN Some(fsys[p].boxes) ELSE None

\* LiveSigner::paths: the fragments of the directory of uri's representation
paths(d, name, uri) ==
    LET info == RegexpUri(uri)
        dir == local(name, info.rep_id)
    IN
    IF ~info.ok \/ dir \notin d.dirs THEN [ok |-> FALSE, paths |-> {}]
    ELSE [ok |-> TRUE,
          paths |-> {p \in DOMAIN d.fs :
                        /\ Parent(p) = dir
                        /\ is_fragment(p)
                        /\ RegexpUri(p).ok
                        /\ RegexpUri(p).rep_id = info.rep_id}]

\* LiveSigner::rolling_hash_input_paths
rolling_hash_input_paths(d, name, uri) ==
    LET ps == paths(d, name, uri)
        inits == {p \in ps.paths : is_init(p)}
    IN
    IF ~ps.ok \/ inits = {} THEN [ok |-> FALSE, init |-> <<>>, fragment |-> <<>>]
    ELSE [ok |-> TRUE, init |-> CHOOSE p \in inits : TRUE,
          fragment |-> local_path(name, uri, None)]

\* LiveSigner::rolling_hash_forward_urls
rolling_hash_forward_urls(name, init, fragment) ==
    <<[path |-> path_to_signed_path(name, fragment, "rolling-hash"),
       url |-> path_to_cdn_url(fragment, name, Some("rolling-hash"))],
      [path |-> path_to_signed_path(name, init, "rolling-hash"),
       url |-> path_to_cdn_url(init, name, Some("rolling-hash"))]>>

\* the files of a directory as the engine sees them, the init being given
\* by its own path
TreeAt(fsys, dir, initPath) ==
    [n \in FileNames |->
        IF n = InitName THEN ReadBoxes(fsys, initPath)
        ELSE ReadBoxes(fsys, dir \o <<SegmentFile(n)>>)]

\* the engine's output tree written to the disk
StoreTree(fsys, dir, initPath, tree) ==
    LET target(n) == IF n = InitName THEN initPath ELSE dir \o <<SegmentFile(n)>>
        written == {n \in FileNames : IsSome(tree[n])}
        newp == {target(n) : n \in written}
    IN
    [p \in DOMAIN fsys \cup newp |->
        IF p \in newp
        THEN LET n == CHOOSE n \in written : target(n) = p IN
             File(Unwrap(tree[n]),
                  IF p \in DOMAIN fsys THEN fsys[p].manifest ELSE None)
        ELSE fsys[p]]

\* for (path, url) in forward { client.post(url).body(fs::read(path)?) }:
\* the first unreadable path ends the task
RECURSIVE PushAll(_, _, _)
PushAll(fsys, sent, pairs) ==
    IF Len(pairs) = 0 \/ Head(pairs).path \notin DOMAIN fsys THEN sent
    ELSE PushAll(fsys,
                 sent \cup {[url |-> Head(pairs).url, body |-> fsys[Head(pairs).path]]},
                 Tail(pairs))

\* the body posted for segment n of a representation
Segment(rep, n) ==
    LET boxes == Unwrap(Original(n)) IN
    File([i \in 1..Len(boxes) |-> [boxes[i] EXCEPT !.data = 10 * rep + n]], None)

\* post_ingest up to the call of sign: the body is written under <media> and
\* forwarded unchanged
persist(d, name, uri, body) ==
    LET local_ == local_path(name, uri, None) IN
    [fs |-> WriteFile(d.fs, local_, body),
     dirs |-> d.dirs \cup Ancestors(Parent(local_)),
     pushed |-> d.pushed \cup {[url |-> cdn_url(name, uri, None), body |-> body]}]

\* the end of the rolling thread: the signed fragment and the signed init
\* are read and posted
RollingForward(d, name, inp, fs2, output_dir) ==
    [fs |-> fs2,
     dirs |-> d.dirs \cup Ancestors(output_dir),
     pushed |-> PushAll(fs2, d.pushed,
                        rolling_hash_forward_urls(name, inp.init, inp.fragment))]

\* sign_live_bmff after add_rolling_hash_fragment returned r: the init hash
\* is refreshed and the assertion is embedded in the signed init
RollingEmbed(d, name, inp, out_, r) ==
    LET output_dir == Parent(out_) IN
    CHOOSE v \in
        {IF ~r.ok \/ ~u.ok
         THEN [d EXCEPT !.fs = fs1, !.dirs = @ \cup Ancestors(output_dir)]
         ELSE CHOOSE w \in
                {RollingForward(d, name, inp, fs2, output_dir) :
                    fs2 \in {[fs1 EXCEPT ![out_].manifest = Some(to_assertion(u.bmff))]}} :
                TRUE :
            u \in {update_fragmented_inithash(r.bmff, r.media, r.out)},
            fs1 \in {StoreTree(d.fs, output_dir, out_, r.out)}} : TRUE

\* sign_live_bmff for one fragment: the state is the assertion of the signed
\* init shifted, or a new one; add_rolling_hash_fragment signs the fragment
RollingSign(d, name, inp) ==
    LET out_ == output(name, inp.init, "rolling-hash") IN
    CHOOSE v \in
        {RollingEmbed(d, name, inp, out_, r) :
            r \in {add_rolling_hash_fragment(state, m, o, LiveAlg,
                                             IndexOf(FileName(inp.fragment))) :
                      state \in {IF out_ \in DOMAIN d.fs /\ IsSome(d.fs[out_].manifest)
                                 THEN shift_rolling_hash(
                                          from_assertion(Unwrap(d.fs[out_].manifest)))
                                 ELSE NewBmffHash(LiveAlg)},
                      m \in {TreeAt(d.fs, Parent(inp.fragment), inp.init)},
                      o \in {TreeAt(d.fs, Parent(out_), out_)}}} : TRUE

\* the rolling thread of LiveSigner::sign: sign_live_bmff on the init found
\* beside the fragment, then the signed fragment and the signed init are
\* posted
rolling_task(d, name, uri) ==
    CHOOSE v \in
        {IF inp.ok THEN RollingSign(d, name, inp) ELSE d :
            inp \in {rolling_hash_input_paths(d, name, uri)}} : TRUE

-----------------------------------------------------------------------------
\* Two representations ingested in any interleaving, every rolling task run
\* to its end before the next one of its representation starts

\* POST of the init segment of a representation
PostInit ==
    /\ \E rep \in Reps :
        /\ ~progress[rep].init
        /\ \E body \in {Segment(rep, InitName)} :
           \E d \in {persist(Disk, StreamName, Uri(rep, InitName), body)} :
            /\ fs' = d.fs
            /\ dirs' = d.dirs
            /\ pushed' = d.pushed
            /\ progress' = [progress EXCEPT
                    ![rep].init = TRUE,
                    ![rep].alone = persist(@, StreamName, Uri(rep, InitName), body)]
    /\ UNCHANGED window
    /\ UNCHANGED <<engineVars, treeVars, verifyVars, liveVars, utilVars>>

\* POST of the next fragment of a representation
PostFragment ==
    /\ \E rep \in Reps :
        /\ progress[rep].init
        /\ progress[rep].ingested < NumFrags
        /\ \E n \in {progress[rep].ingested + 1} :
           \E d \in {persist(Disk, StreamName, Uri(rep, n), Segment(rep, n))} :
            /\ fs' = d.fs
            /\ dirs' = d.dirs
            /\ pushed' = d.pushed
            /\ progress' = [progress EXCEPT
                    ![rep].ingested = n,
                    ![rep].alone = persist(@, StreamName, Uri(rep, n), Segment(rep, n))]
    /\ UNCHANGED window
    /\ UNCHANGED <<engineVars, treeVars, verifyVars, liveVars, utilVars>>

\* the rolling thread spawned for the oldest fragment not yet signed
RollingTask ==
    /\ \E rep \in Reps :
        /\ progress[rep].rolling < progress[rep].ingested
        /\ \E n \in {progress[rep].rolling + 1} :
           \E d \in {rolling_task(Disk, StreamName, Uri(rep, n))} :
            /\ fs' = d.fs
            /\ dirs' = d.dirs
            /\ pushed' = d.pushed
            /\ progress' = [progress EXCEPT
                    ![rep].rolling = n,
                    ![rep].alone = rolling_task(@, StreamName, Uri(rep, n))]
    /\ UNCHANGED window
    /\ UNCHANGED <<engineVars, treeVars, verifyVars, liveVars, utilVars>>

RepsNext == PostInit \/ PostFragment \/ RollingTask

SpecReps == Init /\ [][RepsNext]_vars

\* the disk of a coordinator that has seen this representation only
Solo(rep) == progress[rep].alone

\* C16: the signed outputs and the rolling state of a representation depend
\* only on its own init and fragments: however the ingests of two
\* representations are interleaved, the disk holds for each representation
\* exactly the files (signed init with its assertion, signed fragments) that
\* a run with that representation alone produces, no file belongs to both,
\* and the CDN received the same bodies.
C16_RepresentationsIndependent ==
    /\ \A p \in DOMAIN fs :
        \E rep \in Reps :
            /\ p \in DOMAIN Solo(rep).fs
            /\ fs[p] = Solo(rep).fs[p]
            /\ \A other \in Reps \ {rep} : p \notin DOMAIN Solo(other).fs
    /\ \A rep \in Reps : DOMAIN Solo(rep).fs \subseteq DOMAIN fs
    /\ pushed = UNION {Solo(rep).pushed : rep \in Reps}

\* both representations have signed two fragments
C16_Witness ==
    /\ \A rep \in Reps : progress[rep].rolling >= 2
    /\ \A rep \in Reps :
        LET p == local_path(StreamName, Uri(rep, 2), Some("rolling-hash")) IN
        p \in DOMAIN fs /\ Len(rolling_hashes(fs[p].boxes)) = 1

-----------------------------------------------------------------------------
\* RollingHash (assertions/rolling_hash.rs): verify_stream_fragments

MaxList == 2

\* struct RollingHash of rolling_hash.rs, as decoded from a manifest
RollingAssertion(hash, rolling) ==
    [exclusions |-> {}, alg |-> Some("sha256"), hash |-> hash,
     rolling_hash |-> rolling, previous_hash |-> None]

\* RollingHash::verify_stream_hash: the file level hash of the init segment
rolling_verify_stream_hash(a, reader, alg) ==
    IF IsSome(a.hash)
       /\ ~verify_stream_by_alg(CurrAlg(a, alg), Unwrap(a.hash), reader, a.exclusions)
    THEN HashMismatch("BMFF file level hash mismatch")
    ELSE VOk

HashOk(h) == [ok |-> TRUE, err |-> "", msg |-> "", hash |-> h]
HashErr(msg) == [ok |-> FALSE, err |-> "HashMismatch", msg |-> msg, hash |-> <<>>]

\* RollingHash::hash_fragment(reader, alg, previous_hash, is_first)
hash_fragment(a, reader, alg, previous, is_first) ==
    LET boxes == rolling_hashes(reader)
        frag_hash == hash_stream_by_alg(alg, reader, a.exclusions)
    IN
    IF IsSome(previous) /\ ~is_first
    THEN IF Len(boxes) # 1
         THEN HashErr("non-first Fragment requires exactly one embedded previous hash")
         ELSE HashOk(concat_and_hash(alg, Unwrap(previous), Some(frag_hash)))
    ELSE IF IsSome(previous) /\ is_first
    THEN HashErr("first Fragment expects no previous hash")
    ELSE IF ~is_first
    THEN HashErr("non-first Fragment requires previous hash")
    ELSE IF Len(boxes) # 0
    THEN HashErr("first Fragment should not have a previous hash embedded")
    ELSE HashOk(concat_and_hash(alg, frag_hash, None))

\* for frag in fragments { rolling_hash = hash_fragment(.., Some(&rolling_hash), false)? }
RECURSIVE RollThrough(_, _, _, _)
RollThrough(a, alg, acc, fragments) ==
    IF ~acc.ok \/ Len(fragments) = 0 THEN acc
    ELSE RollThrough(a, alg,
                     hash_fragment(a, Head(fragments), alg, Some(acc.hash), FALSE),
                     Tail(fragments))

\* RollingHash::verify_stream_fragments(init_stream, fragments, alg)
verify_stream_fragments(a, init_stream, fragments, alg) ==
    LET curr_alg == CurrAlg(a, alg)
        initResult == rolling_verify_stream_hash(a, init_stream, alg)
        rolled == RollThrough(a, curr_alg,
                              hash_fragment(a, Head(fragments), curr_alg, None, TRUE),
                              Tail(fragments))
    IN
    IF ~initResult.ok THEN initResult
    ELSE IF Len(fragments) = 0 THEN VOk
    ELSE IF ~rolled.ok THEN [ok |-> FALSE, err |-> rolled.err, msg |-> rolled.msg]
    ELSE IF IsNone(a.rolling_hash) THEN HashMismatch("missing rolling hash")
    ELSE IF rolled.hash # Unwrap(a.rolling_hash) THEN HashMismatch("mismatch rolling hash")
    ELSE VOk

\* the hash accumulated over a list of fragments: H(H(F_1)), then
\* H(acc || H(F_k))
RECURSIVE Accumulated(_)
Accumulated(fragments) ==
    LET last == hash_stream_by_alg("sha256", fragments[Len(fragments)], {}) IN
    IF Len(fragments) = 1 THEN Digest("sha256", last)
    ELSE Digest("sha256", Accumulated(SubSeq(fragments, 1, Len(fragments) - 1)) \o last)

ListFrags == 1..MaxList

\* a fragment with a FragmentRollingHash box before its moof
Anchored(n, anchor) ==
    insert_data_at(Unwrap(Original(n)), FirstIndex(Unwrap(Original(n)), "moof"),
                   RollingBox(anchor))

\* the anchor_point values a presented fragment may carry
Anchors ==
    {None, Some(Foreign)}
    \cup {Some(Accumulated([i \in 1..k |-> Unwrap(Original(i))])) : k \in ListFrags}

\* fragment n as a verifier may be handed it: the original, or a signed copy
\* with some anchor_point, its media data intact or changed
Presentable(n) ==
    {Unwrap(Original(n))}
    \cup {Anchored(n, anchor) : anchor \in Anchors}
    \cup {Tampered(Anchored(n, anchor)) : anchor \in Anchors}

RECURSIVE FragmentLists(_)
FragmentLists(k) ==
    IF k = 0 THEN {<<>>}
    ELSE FragmentLists(k - 1)
         \cup {Append(l, x) : l \in {m \in FragmentLists(k - 1) : Len(m) = k - 1},
                              x \in Presentable(k)}

\* the assertions a verifier may be handed: hash of the init right or absent
\* or wrong, rolling_hash any accumulated value or absent
FragmentAssertions ==
    {RollingAssertion(hash, rolling) :
        hash \in {None, Some(hash_stream_by_alg("sha256", InitFile, {})), Some(Foreign)},
        rolling \in Anchors}

VerifyStreamFragments ==
    /\ ~vcall.asked
    /\ \E a \in FragmentAssertions, fragments \in FragmentLists(MaxList) :
        \E r \in {verify_stream_fragments(a, InitFile, fragments, None)} :
            vcall' = [asked |-> TRUE, op |-> "fragments", manifest |-> a,
                      init |-> InitFile, fragments |-> fragments,
                      ok |-> r.ok, err |-> r.err, msg |-> r.msg]
    /\ UNCHANGED <<engineVars, treeVars, liveVars, storeVars, utilVars>>

FragmentsNext == VerifyStreamFragments

SpecFragments == Init /\ [][FragmentsNext]_vars

\* C18: verify_stream_fragments returns Ok only if each fragment's embedded
\* anchor_point equals the hash accumulated over the preceding fragments
\* (absent for the first fragment) and the final accumulator equals the
\* assertion's rolling_hash.
C18_OkMeansAnchorsFollowChain ==
    (vcall.asked /\ vcall.op = "fragments" /\ vcall.ok /\ Len(vcall.fragments) > 0) =>
        /\ \A k \in 1..Len(vcall.fragments) :
              AnchorOf(vcall.fragments[k]) =
                  IF k = 1 THEN None
                  ELSE Some(Accumulated(SubSeq(vcall.fragments, 1, k - 1)))
        /\ vcall.manifest.rolling_hash = Some(Accumulated(vcall.fragments))

-----------------------------------------------------------------------------
\* Signing a fragment a second time

\* what the first signing of fragment f under alg leaves behind: a fresh
\* assertion, the originals, an empty output tree
FirstSigning(f, alg) ==
    add_rolling_hash_fragment(NewBmffHash("sha256"), Originals,
                              [n \in FileNames |-> None], alg, f)

\* the engine has just signed the same fragment twice in a row, a shift
\* before each add
SignedTwice ==
    /\ res.op = "add" /\ res.ok
    /\ phase = "idle"
    /\ Len(chain) = 2
    /\ chain[1] = chain[2]

\* C17: signing the same init and fragment again over the output tree of the
\* first run yields the same signed fragment and the same assertion state as
\* the first run did.
C17_ResignIsIdentical ==
    SignedTwice =>
        /\ out[res.f] = FirstSigning(res.f, res.alg).out[res.f]
        /\ current_hash(bmff) = current_hash(FirstSigning(res.f, res.alg).bmff)

-----------------------------------------------------------------------------
\* The Merkle thread of the live coordinator (cli/src/live/mod.rs)

\* the window sizes the coordinator is started with
Windows == {0, 2}

\* Vec<PathBuf>::sort on the files of one directory
RECURSIVE SortPaths(_)
SortPaths(S) ==
    IF S = {} THEN <<>>
    ELSE LET p == CHOOSE p \in S :
                    \A q \in S : IndexOf(FileName(p)) <= IndexOf(FileName(q))
         IN <<p>> \o SortPaths(S \ {p})

Reverse(s) == [i \in 1..Len(s) |-> s[Len(s) + 1 - i]]

\* a mutated chunking that keeps the first group instead of the last
LastChunk_First(s, w) == SubSeq(s, 1, IF Len(s) < w THEN Len(s) ELSE w)

\* s.chunks(w).last() of a non-empty s
LastChunk(s, w) == SubSeq(s, w * ((Len(s) - 1) \div w) + 1, Len(s))

\* LiveSigner::paths_to_sign: (init, fragments sorted)
paths_to_sign(d, name, uri) ==
    LET ps == paths(d, name, uri)
        inits == {p \in ps.paths : is_init(p)}
    IN
    IF ~ps.ok \/ Cardinality(inits) # 1
    THEN [ok |-> FALSE, init |-> <<>>, fragments |-> <<>>]
    ELSE [ok |-> TRUE, init |-> CHOOSE p \in inits : TRUE,
          fragments |-> SortPaths(ps.paths \ inits)]

\* LiveSigner::forward for a type other than Manifest: the (signed path, URL)
\* pairs, init first; with a window only the last group, newest first
forward(d, name, uri, ty, window_size) ==
    LET ps == paths(d, name, uri)
        inits == {p \in ps.paths : is_init(p)}
        pair(p) == [path |-> path_to_signed_path(name, p, ty),
                    url |-> path_to_cdn_url(p, name, Some(ty))]
        sorted == SortPaths(ps.paths \ inits)
        fragments == [i \in 1..Len(sorted) |-> pair(sorted[i])]
    IN
    IF ~ps.ok \/ inits = {} THEN [ok |-> FALSE, pairs |-> <<>>]
    ELSE IF window_size = 0
    THEN [ok |-> TRUE, pairs |-> <<pair(CHOOSE p \in inits : TRUE)>> \o fragments]
    ELSE IF Len(fragments) = 0 THEN [ok |-> FALSE, pairs |-> <<>>]
    ELSE [ok |-> TRUE,
          pairs |-> <<pair(CHOOSE p \in inits : TRUE)>>
                    \o Reverse(LastChunk(fragments, window_size))]

\* clear_dir: remove_dir_all of the parent of the signed init; a directory
\* that does not exist is an error
clear_dir(d, init) ==
    LET dir == Parent(init) IN
    IF dir \notin d.dirs THEN [ok |-> FALSE, disk |-> d]
    ELSE [ok |-> TRUE,
          disk |-> [d EXCEPT
                      !.fs = [p \in {q \in DOMAIN d.fs : ~Under(dir, q)} |-> d.fs[p]],
                      !.dirs = {q \in d.dirs : q # dir /\ ~Under(dir, q)}]]

\* the end of the Merkle thread: every pair of forward is read and posted
MerkleForward(d, fs2, output_dir, pairs) ==
    [fs |-> fs2,
     dirs |-> d.dirs \cup Ancestors(output_dir),
     pushed |-> PushAll(fs2, d.pushed, pairs)]

\* sign_live_bmff after add_merkle_for_fragmented returned r: the init hash
\* is filled in and the assertion is embedded in the signed init
MerkleEmbed(d, inp, out_, r, pairs) ==
    LET output_dir == Parent(out_) IN
    CHOOSE v \in
        {IF ~r.ok \/ ~u.ok
         THEN [d EXCEPT !.fs = fs1, !.dirs = @ \cup Ancestors(output_dir)]
         ELSE CHOOSE w \in
                {MerkleForward(d, fs2, output_dir, pairs) :
                    fs2 \in {[fs1 EXCEPT ![out_].manifest = Some(to_assertion(u.bmff))]}} :
                TRUE :
            u \in {update_fragmented_inithash(r.bmff, r.media, r.out)},
            fs1 \in {StoreTree(StoreTree(d.fs, Parent(inp.init), inp.init, r.media),
                               output_dir, out_, r.out)}} : TRUE

\* sign_live_bmff(signer, init, fragments, output, Some(window_size)): the
\* trailing group of the window (all fragments when the window is 0) is
\* signed as the Merkle group of its number
MerkleSign(d, inp, out_, window_size, pairs) ==
    CHOOSE v \in
        {MerkleEmbed(d, inp, out_, r, pairs) :
            r \in {add_merkle_for_fragmented(state, m, o, LiveAlg,
                        [i \in 1..Len(group) |-> IndexOf(FileName(group[i]))],
                        IF window_size = 0 THEN 1
                        ELSE (Len(inp.fragments) - 1) \div window_size + 1,
                        None) :
                      state \in {IF out_ \in DOMAIN d.fs /\ IsSome(d.fs[out_].manifest)
                                 THEN from_assertion(Unwrap(d.fs[out_].manifest))
                                 ELSE NewBmffHash(LiveAlg)},
                      group \in {IF window_size = 0 THEN inp.fragments
                                 ELSE LastChunk(inp.fragments, window_size)},
                      m \in {TreeAt(d.fs, Parent(inp.init), inp.init)},
                      o \in {TreeAt(d.fs, Parent(out_), out_)}}} : TRUE

\* the Merkle thread of LiveSigner::sign once its inputs are known
MerkleThread(d, name, inp, fw, window_size) ==
    LET out_ == output(name, inp.init, "signed") IN
    CHOOSE v \in
        {IF window_size = 0 /\ ~cleared.ok THEN d
         ELSE MerkleSign(cleared.disk, inp, out_, window_size, fw.pairs) :
            cleared \in {IF window_size = 0 THEN clear_dir(d, out_)
                         ELSE [ok |-> TRUE, disk |-> d]}} : TRUE

\* the Merkle part of LiveSigner::sign: paths_to_sign, output and forward,
\* then the thread
merkle_task(d, name, uri, window_size) ==
    CHOOSE v \in
        {IF inp.ok /\ fw.ok /\ Len(inp.fragments) > 0
         THEN MerkleThread(d, name, inp, fw, window_size) ELSE d :
            inp \in {paths_to_sign(d, name, uri)},
            fw \in {forward(d, name, uri, "signed", window_size)}} : TRUE

\* POST of the next fragment of a representation once the Merkle thread of
\* the fragment before it has ended
PostFragmentInTurn ==
    /\ \E rep \in Reps :
        /\ progress[rep].init
        /\ progress[rep].ingested < NumFrags
        /\ progress[rep].merkle = progress[rep].ingested
        /\ \E n \in {progress[rep].ingested + 1} :
           \E d \in {persist(Disk, StreamName, Uri(rep, n), Segment(rep, n))} :
            /\ fs' = d.fs
            /\ dirs' = d.dirs
            /\ pushed' = d.pushed
            /\ progress' = [progress EXCEPT
                    ![rep].ingested = n,
                    ![rep].alone = persist(@, StreamName, Uri(rep, n), Segment(rep, n))]
    /\ UNCHANGED window
    /\ UNCHANGED <<engineVars, treeVars, verifyVars, liveVars, utilVars>>

\* the Merkle thread spawned for the fragment just ingested
MerkleTask ==
    /\ \E rep \in Reps :
        /\ progress[rep].merkle < progress[rep].ingested
        /\ \E n \in {progress[rep].merkle + 1} :
           \E d \in {merkle_task(Disk, StreamName, Uri(rep, n), window)} :
            /\ fs' = d.fs
            /\ dirs' = d.dirs
            /\ pushed' = d.pushed
            /\ progress' = [progress EXCEPT
                    ![rep].merkle = n,
                    ![rep].alone = merkle_task(@, StreamName, Uri(rep, n), window)]
    /\ UNCHANGED window
    /\ UNCHANGED <<engineVars, treeVars, verifyVars, liveVars, utilVars>>

WindowNext == PostInit \/ PostFragmentInTurn \/ RollingTask \/ MerkleTask

InitWindow ==
    /\ EngineIdle /\ TreeIdle /\ VerifyIdle /\ LiveIdle /\ DiskIdle /\ UtilIdle
    /\ window \in Windows

SpecWindow == InitWindow /\ [][WindowNext]_vars

\* the posts made for signed fragments
SignedFragmentPosts ==
    {post \in pushed :
        /\ post.url[2] \in {TypedName(StreamName, "signed"),
                            TypedName(StreamName, "rolling-hash")}
        /\ ~is_init(post.url)}

\* the local file a post was read from
PostedFrom(url) == MediaRoot \o Tail(url)

\* C19: once a signed fragment has been published no later signing task
\* rewrites it: the file on disk still holds the bytes that were posted, and
\* the same URL was never posted with another body.
C19_PublishedFragmentsStay ==
    \A post \in SignedFragmentPosts :
        /\ PostedFrom(post.url) \in DOMAIN fs
        /\ fs[PostedFrom(post.url)] = post.body
        /\ \A other \in SignedFragmentPosts : other.url = post.url => other.body = post.body

\* the assertion embedded in the signed init of a representation
SignedManifest(rep) ==
    LET out_ == output(StreamName, local_path(StreamName, Uri(rep, InitName), None), "signed") IN
    IF out_ \in DOMAIN fs /\ IsSome(fs[out_].manifest)
    THEN Some(from_assertion(Unwrap(fs[out_].manifest))) ELSE None

SignedFragment(rep, n) ==
    ReadBoxes(fs, output(StreamName, local_path(StreamName, Uri(rep, n), None), "signed"))

\* C20: with window_size 0, after the init and fragments 1..n were ingested
\* one at a time, each Merkle thread ending before the next ingest, the
\* signed output holds all n fragments in one Merkle group of count n;
\* already so for n = 1, when no signed output directory exists yet.
C20_WholeStreamOneGroup ==
    \A rep \in Reps :
        (window = 0 /\ progress[rep].merkle >= 1) =>
            /\ IsSome(SignedManifest(rep))
            /\ IsSome(Unwrap(SignedManifest(rep)).merkle)
            /\ Len(Unwrap(Unwrap(SignedManifest(rep)).merkle)) = 1
            /\ Unwrap(Unwrap(SignedManifest(rep)).merkle)[1].count = progress[rep].merkle
            /\ \A n \in 1..progress[rep].merkle :
                  /\ IsSome(SignedFragment(rep, n))
                  /\ Len(bmff_merkle(Unwrap(SignedFragment(rep, n)))) = 1

-----------------------------------------------------------------------------
\* What the Merkle thread posts

SignedPath(rep, n) ==
    output(StreamName, local_path(StreamName, Uri(rep, n), None), "signed")

\* the size of the trailing group of n fragments under window w
TrailingSize(n, w) == ((n - 1) % w) + 1

\* C21: with window_size W > 0 and n >= 1 fragments of the representation on
\* disk the Merkle thread is handed, and posts, the init file first and then
\* exactly the trailing group: the last ((n-1) mod W) + 1 of the sorted
\* fragments.
C21_PushesInitAndTrailingGroup ==
    \A rep \in Reps :
        (window > 0 /\ progress[rep].init /\ progress[rep].ingested >= 1) =>
            \A n \in {progress[rep].ingested} :
            \A fw \in {forward(Disk, StreamName, Uri(rep, n), "signed", window)} :
                /\ fw.ok
                /\ Len(fw.pairs) = TrailingSize(n, window) + 1
                /\ fw.pairs[1].path = SignedPath(rep, InitName)
                /\ {fw.pairs[i].path : i \in 2..Len(fw.pairs)}
                       = {SignedPath(rep, j) : j \in (n - TrailingSize(n, window) + 1)..n}
                /\ progress[rep].merkle = n =>
                      \A i \in 1..Len(fw.pairs) :
                          [url |-> fw.pairs[i].url, body |-> fs[fw.pairs[i].path]] \in pushed

\* a third fragment signed under window 2: a group of its own, posted after
\* the group of fragments 1 and 2
C21_Witness ==
    /\ window = 2
    /\ progress[1].merkle = 3
    /\ \E post \in pushed : post.url = path_to_cdn_url(local_path(StreamName, Uri(1, 3), None),
                                                      StreamName, Some("signed"))
    /\ \E post \in pushed : post.url = path_to_cdn_url(local_path(StreamName, Uri(1, 2), None),
                                                      StreamName, Some("signed"))

-----------------------------------------------------------------------------
\* DELETE requests (routes.rs delete_ingest)

MaxDeletes == 2

\* DELETE /<name>/<uri..> for a segment that was ingested: the delete is
\* forwarded to the CDN
DeleteIngest ==
    /\ Cardinality(deletes) < MaxDeletes
    /\ \E rep \in {r \in Reps : progress[r].init}, n \in 0..NumFrags :
        /\ n <= progress[rep].ingested
        /\ \E target \in {cdn_url(StreamName, Uri(rep, n), None)} :
            deletes' = deletes \cup {target}
    /\ UNCHANGED <<req, retry, call>>
    /\ UNCHANGED <<engineVars, treeVars, verifyVars, liveVars, storeVars>>

DeleteNext == PostInit \/ PostFragment \/ RollingTask \/ DeleteIngest

SpecDelete == Init /\ [][DeleteNext]_vars

\* C22: after a delete request for a fragment the local copy is gone: the
\* file is not on disk and LiveSigner::paths no longer lists it for the
\* signing tasks of its representation.
C22_DeletedFragmentGone ==
    \A rep \in Reps, n \in 1..NumFrags :
        cdn_url(StreamName, Uri(rep, n), None) \in deletes =>
            /\ local_path(StreamName, Uri(rep, n), None) \notin DOMAIN fs
            /\ local_path(StreamName, Uri(rep, n), None)
                   \notin paths(Disk, StreamName, Uri(rep, n)).paths

-----------------------------------------------------------------------------
\* POST requests (routes.rs post_ingest) and the threads LiveSigner::sign
\* spawns

\* the manifests of the stream, as FFmpeg posts them
MpdUri == <<"manifest.mpd">>
PlaylistUri == <<"1", "media.m3u8">>
ManifestUris == {MpdUri, PlaylistUri}
ManifestBody(uri) == File(<<Box("manifest", Len(uri))>>, None)

\* a thread as spawned: the inputs it was given, not yet run
RollingThread(uri, inp) ==
    [kind |-> "rolling", uri |-> uri, inp |-> inp, fw |-> <<>>, state |-> "spawned"]
MerkleThreadOf(uri, inp, fw) ==
    [kind |-> "merkle", uri |-> uri, inp |-> inp, fw |-> fw, state |-> "spawned"]

\* a mutated sign that waits for the rolling thread and answers with its
\* outcome
sign_Joined(d, name, uri, window_size) ==
    LET rin == rolling_hash_input_paths(d, name, uri) IN
    IF ~rin.ok THEN [ok |-> FALSE, spawned |-> {}, disk |-> d]
    ELSE [ok |-> TRUE,
          spawned |-> {[RollingThread(uri, rin) EXCEPT !.state = "ok"]},
          disk |-> RollingSign(d, name, rin)]

\* LiveSigner::sign(name, uri): the inputs of each thread are computed, the
\* thread is spawned and not waited for; an input that cannot be computed
\* ends sign with an error
sign(d, name, uri, window_size) ==
    LET rin == rolling_hash_input_paths(d, name, uri)
        min == paths_to_sign(d, name, uri)
        fw == forward(d, name, uri, "signed", window_size)
    IN
    IF ~rin.ok THEN [ok |-> FALSE, spawned |-> {}, disk |-> d]
    ELSE IF ~min.ok \/ ~fw.ok
    THEN [ok |-> FALSE, spawned |-> {RollingThread(uri, rin)}, disk |-> d]
    ELSE [ok |-> TRUE,
          spawned |-> {RollingThread(uri, rin), MerkleThreadOf(uri, min, fw.pairs)},
          disk |-> d]

\* a mutated post_ingest that hands the init segment to sign as well
post_ingest_SignsInit(d, name, uri, body, window_size) ==
    CHOOSE v \in
        {IF ~is_fragment(uri)
         THEN [status |-> "Ok", spawned |-> {},
               disk |-> [d1 EXCEPT !.pushed =
                           @ \cup {[url |-> cdn_url(name, uri, Some("rolling-hash")),
                                    body |-> body]}]]
         ELSE CHOOSE w \in
                {[status |-> IF s.ok THEN "Ok" ELSE "InternalServerError",
                  spawned |-> s.spawned, disk |-> s.disk] :
                    s \in {sign(d1, name, uri, window_size)}} : TRUE :
            d1 \in {persist(d, name, uri, body)}} : TRUE

\* post_ingest(name, uri, body): the body is written and forwarded; a path
\* that is no fragment is also posted to the rolling-hash CDN path; an init
\* segment ends the request; a fragment is handed to sign
post_ingest(d, name, uri, body, window_size) ==
    CHOOSE v \in
        {IF ~is_fragment(uri)
         THEN [status |-> "Ok", spawned |-> {},
               disk |-> [d1 EXCEPT !.pushed =
                           @ \cup {[url |-> cdn_url(name, uri, Some("rolling-hash")),
                                    body |-> body]}]]
         ELSE IF is_init(uri)
         THEN [status |-> "Ok", spawned |-> {}, disk |-> d1]
         ELSE CHOOSE w \in
                {[status |-> IF s.ok THEN "Ok" ELSE "InternalServerError",
                  spawned |-> s.spawned, disk |-> s.disk] :
                    s \in {sign(d1, name, uri, window_size)}} : TRUE :
            d1 \in {persist(d, name, uri, body)}} : TRUE

Answered(uri) == \E a \in req.answered : a.uri = uri

\* the requests FFmpeg may send next: the init segment and the manifests at
\* any time, the fragments of representation 1 in index order
NextRequests ==
    {u \in ManifestUris \cup {Uri(1, n) : n \in 0..NumFrags} :
        /\ ~Answered(u)
        /\ \A n \in 2..NumFrags : u = Uri(1, n) => Answered(Uri(1, n - 1))}

BodyOf(uri) ==
    IF uri \in ManifestUris THEN ManifestBody(uri)
    ELSE Segment(1, IndexOf(FileName(uri)))

\* one POST request handled from its arrival to its response
PostIngest ==
    /\ \E uri \in NextRequests :
       \E r \in {post_ingest(Disk, StreamName, uri, BodyOf(uri), window)} :
        /\ fs' = r.disk.fs
        /\ dirs' = r.disk.dirs
        /\ pushed' = r.disk.pushed
        /\ req' = [answered |-> req.answered \cup {[uri |-> uri, status |-> r.status]},
                   spawned |-> req.spawned \cup r.spawned]
    /\ UNCHANGED <<progress, window, deletes, retry, call>>
    /\ UNCHANGED <<engineVars, treeVars, verifyVars, liveVars>>

SignedUrl(t) ==
    path_to_cdn_url(local_path(StreamName, t.uri, None), StreamName,
                    Some(IF t.kind = "rolling" THEN "rolling-hash" ELSE "signed"))

\* a spawned thread runs to its end: it ends well when its signed fragment
\* has been posted
ThreadRun ==
    /\ \E t \in {x \in req.spawned : x.state = "spawned"} :
       \E d \in {IF t.kind = "rolling" THEN RollingSign(Disk, StreamName, t.inp)
                 ELSE MerkleThread(Disk, StreamName, t.inp, [ok |-> TRUE, pairs |-> t.fw],
                                   window)} :
        /\ fs' = d.fs
        /\ dirs' = d.dirs
        /\ pushed' = d.pushed
        /\ req' = [req EXCEPT !.spawned =
                     (@ \ {t}) \cup
                     {[t EXCEPT !.state =
                         IF \E post \in d.pushed \ pushed : post.url = SignedUrl(t)
                         THEN "ok" ELSE "failed"]}]
    /\ UNCHANGED <<progress, window, deletes, retry, call>>
    /\ UNCHANGED <<engineVars, treeVars, verifyVars, liveVars>>

IngestNext == PostIngest \/ ThreadRun

InitIngest ==
    /\ EngineIdle /\ TreeIdle /\ VerifyIdle /\ LiveIdle /\ DiskIdle /\ UtilIdle
    /\ window \in Windows

SpecIngest == InitIngest /\ [][IngestNext]_vars

NoSigning(uri) == ~is_fragment(uri) \/ is_init(uri)

\* C23: a request for an init segment or a manifest path launches no signing
\* thread: its body is on disk and was forwarded, it is answered Ok, and no
\* thread carries its URI.
C23_InitAndManifestNotSigned ==
    \A a \in req.answered :
        NoSigning(a.uri) =>
            /\ a.status = "Ok"
            /\ \A t \in req.spawned : t.uri # a.uri
            /\ local_path(StreamName, a.uri, None) \in DOMAIN fs
            /\ fs[local_path(StreamName, a.uri, None)] = BodyOf(a.uri)
            /\ [url |-> cdn_url(StreamName, a.uri, None), body |-> BodyOf(a.uri)] \in pushed

\* the init segment and both manifests were posted, and a fragment after them
\* had its threads spawned
C23_Witness ==
    /\ \A u \in ManifestUris \cup {Uri(1, InitName)} : Answered(u)
    /\ \E t \in req.spawned : t.uri = Uri(1, 1) /\ t.state = "ok"

\* the threads a request has spawned
ThreadsOf(spawned, uri) == {t \in spawned : t.uri = uri}

\* C24: a request for a media fragment is answered once the body is persisted
\* and the threads are launched: at the response both threads are spawned
\* and none has run, and whatever becomes of them later the response given
\* stays as it was.
C24_ResponseDoesNotWaitForSigning ==
    [][/\ req.answered \subseteq req'.answered
       /\ \A a \in req'.answered \ req.answered :
            ~NoSigning(a.uri) =>
                /\ local_path(StreamName, a.uri, None) \in DOMAIN fs'
                /\ \A t \in ThreadsOf(req'.spawned, a.uri) : t.state = "spawned"
                /\ a.status = "Ok" <=>
                      {t.kind : t \in ThreadsOf(req'.spawned, a.uri)} = {"rolling", "merkle"}
       /\ \A a \in req.answered :
            ~NoSigning(a.uri) /\ a.status = "Ok" =>
                Cardinality(ThreadsOf(req'.spawned, a.uri)) = 2]_vars

\* a fragment answered Ok whose Merkle thread has failed and whose rolling
\* thread has not run yet
C24_Witness ==
    /\ [uri |-> Uri(1, 1), status |-> "Ok"] \in req.answered
    /\ \E t \in ThreadsOf(req.spawned, Uri(1, 1)) : t.kind = "merkle" /\ t.state = "failed"
    /\ \E t \in ThreadsOf(req.spawned, Uri(1, 1)) : t.kind = "rolling" /\ t.state = "spawned"

-----------------------------------------------------------------------------
\* Files as bytes: replace_c2pa_box (sdk utils/live.rs), extract_c2pa_box and
\* replace_uuid_content (cli live/utility.rs)

MaxBoxes == 2

\* u32::to_be_bytes, u64::to_be_bytes
U32(n) == <<(n \div 16777216) % 256, (n \div 65536) % 256, (n \div 256) % 256, n % 256>>
U64(n) == <<0, 0, 0, 0>> \o U32(n)

\* the bytes of s from position pos (counted from 0) on, and up to it
From(s, pos) == SubSeq(s, pos + 1, Len(s))
Upto(s, pos) == SubSeq(s, 1, pos)

\* Buf::get_u32 / get_u64 of the first bytes of s
get_u32(s) == s[1] * 16777216 + s[2] * 65536 + s[3] * 256 + s[4]
get_u64(s) == get_u32(From(s, 4))

UuidName == <<117, 117, 105, 100>>
FtypName == <<102, 116, 121, 112>>
MdatName == <<109, 100, 97, 116>>

\* a box as FFmpeg writes it: 32-bit size, type, payload; or the large form:
\* size 1, type, 64-bit size, payload
BoxBytes(name, payload) == U32(Len(payload) + 8) \o name \o payload
LargeBoxBytes(name, payload) == U32(1) \o name \o U64(Len(payload) + 16) \o payload

\* the boxes files are made of: a type, a payload length, the size form
BoxKinds ==
    [name : {UuidName, FtypName, MdatName}, len : {0, 2}, large : {FALSE}]
    \cup [name : {UuidName, MdatName}, len : {2}, large : {TRUE}]

\* the payload of the box at position i of a file
PayloadAt(i, len) == [k \in 1..len |-> 10 * i + k]

FramedAt(kinds, i) ==
    IF kinds[i].large THEN LargeBoxBytes(kinds[i].name, PayloadAt(i, kinds[i].len))
    ELSE BoxBytes(kinds[i].name, PayloadAt(i, kinds[i].len))

RECURSIVE Concat(_)
Concat(ss) == IF Len(ss) = 0 THEN <<>> ELSE Head(ss) \o Concat(Tail(ss))

FileBytes(kinds) == Concat([i \in 1..Len(kinds) |-> FramedAt(kinds, i)])

\* the offset of box i in the file
OffsetOf(kinds, i) == Len(FileBytes(SubSeq(kinds, 1, i - 1)))

BoxLists == UNION {[1..n -> BoxKinds] : n \in 0..MaxBoxes}

\* replacement boxes and contents of several lengths
NewContents == {<<>>, <<201>>, <<201, 202>>, <<201, 202, 203>>}

UtilOk(bytes, file) == [outcome |-> "Ok", err |-> "", bytes |-> bytes, file |-> file]
UtilErr(err, file) == [outcome |-> "Err", err |-> err, bytes |-> <<>>, file |-> file]
\* unimplemented!, an arithmetic overflow or a read past the end of a Bytes
\* buffer: the thread panics
UtilPanic(file) == [outcome |-> "panic", err |-> "", bytes |-> <<>>, file |-> file]

\* write_all at position pos of a file opened for read and write: the bytes
\* are overwritten or appended, the file is never shortened
WriteAt(file, pos, bytes) ==
    Upto(file, pos) \o bytes \o From(file, pos + Len(bytes))

\* utils::live::replace_c2pa_box(file, buf, offset)
replace_c2pa_box_at(file, buf, offset) ==
    IF IsNone(offset) THEN UtilPanic(file)
    ELSE
    LET start == Unwrap(offset) IN
    IF start + 4 > Len(file) THEN UtilErr("Io", file)
    ELSE
    LET size == get_u32(From(file, start))
        remainder == From(file, start + size)
    IN UtilOk(<<>>, WriteAt(file, start, buf \o remainder))

\* the loop of extract_c2pa_box over what is left of the buffer
RECURSIVE ExtractLoop(_, _)
ExtractLoop(file, buf) ==
    IF Len(buf) < 8 THEN UtilPanic(file)
    ELSE
    LET size32 == get_u32(buf)
        name == SubSeq(buf, 5, 8)
        hdr == IF size32 = 1 THEN 8 ELSE 4
        rest == IF size32 = 1 THEN From(buf, 16) ELSE From(buf, 8)
    IN
    IF size32 = 1 /\ Len(buf) < 16 THEN UtilPanic(file)
    ELSE
    LET size == IF size32 = 1 THEN get_u64(From(buf, 8)) ELSE size32
        payload_size == size - hdr - 4
    IN
    IF payload_size < 0 \/ payload_size > Len(rest) THEN UtilPanic(file)
    ELSE IF name = UuidName
    THEN UtilOk(U32(size) \o name \o Upto(rest, payload_size), file)
    ELSE ExtractLoop(file, From(rest, payload_size))

\* utility::extract_c2pa_box(path)
extract_c2pa_box(file) == ExtractLoop(file, file)

\* a mutated uuid box that keeps the size field of the old box
NewUuidBox_KeepSize(size, name, new_content) == U32(size) \o name \o new_content

\* the uuid box replace_uuid_content writes: new length, name, new content
NewUuidBox(size, name, new_content) == U32(Len(new_content) + 8) \o name \o new_content

\* the loop of replace_uuid_content: buf is what is left to read, vec what
\* has been written
RECURSIVE ReplaceLoop(_, _, _, _)
ReplaceLoop(file, buf, vec, new_content) ==
    IF Len(buf) = 0 THEN UtilOk(vec, file)
    ELSE IF Len(buf) < 8 THEN UtilPanic(file)
    ELSE
    LET size == get_u32(buf)
        name == SubSeq(buf, 5, 8)
        rest == From(buf, 8)
        payload_size == size - 8
    IN
    IF size = 1 THEN UtilPanic(file)
    ELSE IF payload_size < 0 \/ payload_size > Len(rest) THEN UtilPanic(file)
    ELSE IF name = UuidName
    THEN ReplaceLoop(file, From(rest, payload_size),
                     vec \o NewUuidBox(size, name, new_content), new_content)
    ELSE ReplaceLoop(file, From(rest, payload_size),
                     vec \o U32(size) \o name \o Upto(rest, payload_size), new_content)

\* utility::replace_uuid_content(path, new_content)
replace_uuid_content(file, new_content) == ReplaceLoop(file, file, <<>>, new_content)

\* a file handed to a utility: the boxes it was written from and its bytes
ByteInput(kinds) == [op |-> "input", kinds |-> kinds, file |-> FileBytes(kinds)]

UtilCall(op, at, buf, offset, r) ==
    [op |-> op, kinds |-> call.kinds, file |-> call.file, at |-> at, buf |-> buf,
     offset |-> offset, outcome |-> r.outcome, err |-> r.err, bytes |-> r.bytes,
     after |-> r.file]

\* replace_c2pa_box at the offset of one of the file's boxes, or without an
\* offset
ReplaceC2paBox ==
    /\ call.op = "input"
    /\ \E at \in 0..Len(call.kinds), content \in NewContents :
        \E offset \in {IF at = 0 THEN None ELSE Some(OffsetOf(call.kinds, at))},
           buf \in {BoxBytes(UuidName, content)} :
            call' = UtilCall("replace_c2pa_box", at, buf, offset,
                             replace_c2pa_box_at(call.file, buf, offset))
    /\ UNCHANGED <<deletes, req, retry>>
    /\ UNCHANGED <<engineVars, treeVars, verifyVars, liveVars, storeVars>>

ExtractC2paBox ==
    /\ call.op = "input"
    /\ call' = UtilCall("extract_c2pa_box", 0, <<>>, None, extract_c2pa_box(call.file))
    /\ UNCHANGED <<deletes, req, retry>>
    /\ UNCHANGED <<engineVars, treeVars, verifyVars, liveVars, storeVars>>

ReplaceUuidContent ==
    /\ call.op = "input"
    /\ \E content \in NewContents :
        call' = UtilCall("replace_uuid_content", 0, content, None,
                         replace_uuid_content(call.file, content))
    /\ UNCHANGED <<deletes, req, retry>>
    /\ UNCHANGED <<engineVars, treeVars, verifyVars, liveVars, storeVars>>

BytesNext == ReplaceC2paBox \/ ExtractC2paBox \/ ReplaceUuidContent

InitBytes ==
    /\ EngineIdle /\ TreeIdle /\ VerifyIdle /\ LiveIdle /\ StoreIdle
    /\ deletes = {} /\ req = NoRequests /\ retry = NoRetry
    /\ call \in {ByteInput(kinds) : kinds \in BoxLists}

SpecBytes == InitBytes /\ [][BytesNext]_vars

HasLarge(kinds) == \E i \in 1..Len(kinds) : kinds[i].large
HasUuid(kinds) == \E i \in 1..Len(kinds) : kinds[i].name = UuidName

\* C25: after replace_c2pa_box at the offset of an existing box the file is
\* the bytes before the offset, the new buffer, and the bytes that followed
\* the old box, whether the buffer is longer than, as long as or shorter than
\* the old box.
C25_ReplaceIsExact ==
    (call.op = "replace_c2pa_box" /\ call.at > 0 /\ ~call.kinds[call.at].large) =>
        /\ call.outcome = "Ok"
        /\ call.after = FileBytes(SubSeq(call.kinds, 1, call.at - 1)) \o call.buf
                        \o From(call.file, OffsetOf(call.kinds, call.at + 1))


LargeUuid(kinds) == \E i \in 1..Len(kinds) : kinds[i].name = UuidName /\ kinds[i].large

\* C26: replacing a box whose header has the large size form, or replacing
\* without an offset, returns the error UnsupportedType, does not crash and
\* leaves the file as it was.
C26_LargeOrNoOffsetIsTypedError ==
    (\/ call.op = "replace_c2pa_box" /\ (call.at = 0 \/ call.kinds[call.at].large)
     \/ call.op = "replace_uuid_content" /\ LargeUuid(call.kinds)) =>
        /\ call.outcome = "Err"
        /\ call.err = "UnsupportedType"
        /\ call.after = call.file

FirstUuid(kinds) == CHOOSE i \in 1..Len(kinds) :
    /\ kinds[i].name = UuidName
    /\ \A j \in 1..(i - 1) : kinds[j].name # UuidName

\* C27: extract_c2pa_box on a file without a uuid box returns the error
\* MissingBox and does not panic; on a file with a uuid box it returns the
\* whole box, size field, type and payload.
C27_ExtractFindsBoxOrMissingBox ==
    (call.op = "extract_c2pa_box" /\ ~HasLarge(call.kinds)) =>
        IF HasUuid(call.kinds)
        THEN /\ call.outcome = "Ok"
             /\ call.bytes = FramedAt(call.kinds, FirstUuid(call.kinds))
             /\ Len(call.bytes) = get_u32(call.bytes)
        ELSE /\ call.outcome = "Err"
             /\ call.err = "MissingBox"

\* the file with each uuid box replaced by one that frames the content
WithUuidContent(kinds, content) ==
    Concat([i \in 1..Len(kinds) |->
                IF kinds[i].name = UuidName THEN BoxBytes(UuidName, content)
                ELSE FramedAt(kinds, i)])

\* C29: for a file of boxes with 32-bit sizes, replace_uuid_content returns
\* the boxes in their order, every box other than uuid as it was and the uuid
\* box holding the new content with the size field content length + 8; the
\* file itself is not written.
C29_ReplaceUuidContentFrame ==
    (call.op = "replace_uuid_content" /\ ~HasLarge(call.kinds)) =>
        /\ call.outcome = "Ok"
        /\ call.bytes = WithUuidContent(call.kinds, call.buf)
        /\ call.after = call.file

C29_Witness ==
    /\ call.op = "replace_uuid_content"
    /\ Len(call.kinds) = 2
    /\ ~HasLarge(call.kinds)
    /\ call.kinds[1].name = FtypName /\ call.kinds[1].len = 2
    /\ call.kinds[2].name = UuidName /\ call.kinds[2].len = 2
    /\ Len(call.buf) = 3
    /\ call.outcome = "Ok"
    /\ get_u32(From(call.bytes, 10)) = 11

-----------------------------------------------------------------------------
\* utils::live::signed_output, asked on the disk of the coordinator

\* Path::exists: a file or a directory
Exists(d, p) == p \in DOMAIN d.fs \/ p \in d.dirs

SignedOutputOk(path, d) == [ok |-> TRUE, err |-> "", path |-> path, disk |-> d]
SignedOutputErr(err, d) == [ok |-> FALSE, err |-> err, path |-> None, disk |-> d]

\* a mutated signed_output that looks beside the file itself
signed_output_BesideFile(d, file, output_path) ==
    IF Len(file) = 0 THEN SignedOutputErr("BadParam", d)
    ELSE IF Len(output_path) = 0 THEN SignedOutputErr("BadParam", d)
    ELSE LET p == Parent(file) \o <<FileName(file)>> IN
         SignedOutputOk(IF Exists(d, p) THEN Some(p) ELSE None, d)

\* signed_output(file, output): a path without components has neither a file
\* name nor a parent
signed_output(d, file, output_path) ==
    IF Len(file) = 0 THEN SignedOutputErr("BadParam", d)
    ELSE IF Len(output_path) = 0 THEN SignedOutputErr("BadParam", d)
    ELSE LET p == Parent(output_path) \o <<FileName(file)>> IN
         SignedOutputOk(IF Exists(d, p) THEN Some(p) ELSE None, d)

\* the originals of the stream, and the empty path
OutputFiles ==
    {local_path(StreamName, Uri(rep, n), None) : rep \in Reps, n \in 0..NumFrags} \cup {<<>>}

\* the signed init of each representation, and the empty path
OutputPaths ==
    {output(StreamName, local_path(StreamName, Uri(rep, InitName), None), "rolling-hash") :
        rep \in Reps} \cup {<<>>}

OutputPostInit == call.op = "none" /\ PostInit
OutputPostFragment == call.op = "none" /\ PostFragment
OutputRollingTask == call.op = "none" /\ RollingTask

SignedOutput ==
    /\ call.op = "none"
    /\ \E file \in OutputFiles, output_path \in OutputPaths :
        \E r \in {signed_output(Disk, file, output_path)} :
            /\ fs' = r.disk.fs
            /\ dirs' = r.disk.dirs
            /\ pushed' = r.disk.pushed
            /\ call' = [op |-> "signed_output", file |-> file, output |-> output_path,
                        ok |-> r.ok, err |-> r.err, path |-> r.path, before |-> Disk]
    /\ UNCHANGED <<progress, window, deletes, req, retry>>
    /\ UNCHANGED <<engineVars, treeVars, verifyVars, liveVars>>

OutputNext == OutputPostInit \/ OutputPostFragment \/ OutputRollingTask \/ SignedOutput

SpecOutput == Init /\ [][OutputNext]_vars

\* C30: signed_output(file, output) returns the path <parent of output>/<file
\* name of file> when a file is there and None when none is, and the disk is
\* after the call what it was before.
C30_SignedOutputLooksBesideOutput ==
    (call.op = "signed_output" /\ Len(call.file) > 0 /\ Len(call.output) > 0) =>
        LET p == Parent(call.output) \o <<FileName(call.file)>> IN
        /\ call.ok
        /\ call.path = (IF p \in DOMAIN call.before.fs THEN Some(p) ELSE None)
        /\ Disk = call.before

C30_Witness ==
    /\ call.op = "signed_output"
    /\ call.file = local_path(StreamName, Uri(1, 1), None)
    /\ call.output = output(StreamName, local_path(StreamName, Uri(1, InitName), None), "rolling-hash")
    /\ call.path = Some(local_path(StreamName, Uri(1, 1), Some("rolling-hash")))
    /\ local_path(StreamName, Uri(1, 2), None) \in DOMAIN fs
    /\ local_path(StreamName, Uri(1, 2), Some("rolling-hash")) \notin DOMAIN fs

-----------------------------------------------------------------------------
\* Manifold (cli live/manifold.rs): the event payload of a representation,
\* read by get_json with retries

\* EventPayload::new: one read is left
NewPayload == [count |-> 1]

\* Manifold::insert
manifold_insert(map, rep) ==
    [r \in DOMAIN map \cup {rep} |-> IF r = rep THEN NewPayload ELSE map[r]]

\* Manifold::get: missing value, or the payload with one read less, removed
\* from the map when no read is left
manifold_get(map, rep) ==
    IF rep \notin DOMAIN map THEN [ok |-> FALSE, map |-> map]
    ELSE IF map[rep].count - 1 = 0
    THEN [ok |-> TRUE, map |-> [r \in DOMAIN map \ {rep} |-> map[r]]]
    ELSE [ok |-> TRUE, map |-> [map EXCEPT ![rep].count = @ - 1]]

\* FibonacciBackoff::from_millis(100).max_delay(500 ms)
FromMillis == 100
MaxDelay == 500
Strategy == [curr |-> FromMillis, next |-> FromMillis]

\* Iterator::next of the strategy: the delay and the strategy after it; past
\* max_delay it yields max_delay and stays as it is. It never yields None.
FibonacciNext(s) ==
    IF s.curr > MaxDelay THEN Some([delay |-> MaxDelay, strategy |-> s])
    ELSE Some([delay |-> s.curr, strategy |-> [curr |-> s.next, next |-> s.curr + s.next]])

\* an insert of a payload for a representation
ManifoldInsert ==
    /\ \E rep \in Reps :
        retry' = [retry EXCEPT !.map = manifold_insert(@, ToStr(rep))]
    /\ UNCHANGED <<deletes, req, call>>
    /\ UNCHANGED <<engineVars, treeVars, verifyVars, liveVars, storeVars>>

\* a call of get_json: the strategy is built, nothing has been tried yet
GetJson ==
    /\ \E c \in Callers, rep \in Reps :
        /\ retry.callers[c].pc = "idle"
        /\ retry' = [retry EXCEPT !.callers[c] =
                        [pc |-> "retrying", rep |-> ToStr(rep), strategy |-> Strategy,
                         attempts |-> 0, delay |-> 0]]
    /\ UNCHANGED <<deletes, req, call>>
    /\ UNCHANGED <<engineVars, treeVars, verifyVars, liveVars, storeVars>>

\* Retry::spawn runs self.get(rep): Ok ends the call; on Err the strategy is
\* asked for the next delay, None ends the call with the error, a delay is
\* slept before the action runs again. attempts counts the failed tries up to
\* MaxAttempts.
GetAttempt ==
    /\ \E c \in Callers :
        /\ retry.callers[c].pc = "retrying"
        /\ \E g \in {manifold_get(retry.map, retry.callers[c].rep)},
              nx \in {FibonacciNext(retry.callers[c].strategy)} :
            IF g.ok
            THEN retry' = [retry EXCEPT !.map = g.map, !.callers[c].pc = "done"]
            ELSE IF IsNone(nx)
            THEN retry' = [retry EXCEPT !.callers[c].pc = "failed"]
            ELSE retry' = [retry EXCEPT
                    !.callers[c].pc = "sleeping",
                    !.callers[c].strategy = Unwrap(nx).strategy,
                    !.callers[c].delay = Unwrap(nx).delay,
                    !.callers[c].attempts =
                        IF @ < MaxAttempts THEN @ + 1 ELSE MaxAttempts]
    /\ UNCHANGED <<deletes, req, call>>
    /\ UNCHANGED <<engineVars, treeVars, verifyVars, liveVars, storeVars>>

\* the sleep of the delay is over: the action is run again
RetryWake ==
    /\ \E c \in Callers :
        /\ retry.callers[c].pc = "sleeping"
        /\ retry' = [retry EXCEPT !.callers[c].pc = "retrying"]
    /\ UNCHANGED <<deletes, req, call>>
    /\ UNCHANGED <<engineVars, treeVars, verifyVars, liveVars, storeVars>>

RetryNext == ManifoldInsert \/ GetJson \/ GetAttempt \/ RetryWake

SpecRetry == Init /\ [][RetryNext]_vars

\* the runtime polls the retry future of every pending call: a try that can
\* be made is made, and a sleep ends
SpecRetryFair ==
    Init /\ [][RetryNext]_vars /\ WF_vars(GetAttempt) /\ WF_vars(RetryWake)

\* C28: a get_json that keeps failing is retried up to a cap and then stops
\* and returns the failure: every call of get_json comes to an end, whether
\* a payload arrives or not.
C28_RetryStops ==
    \A c \in Callers :
        (retry.callers[c].pc \in {"retrying", "sleeping"})
            ~> (retry.callers[c].pc \in {"done", "failed"})

-----------------------------------------------------------------------------
\* One assertion signed under both schemes, call by call:
\* add_merkle_for_fragmented, update_fragmented_inithash, shift_rolling_hash
\* and add_rolling_hash_fragment in any order

MaxSignOps == 2

\* an ingested fragment that already carries a BmffMerkleMap box
PreMerkled ==
    <<Box("styp", PreBoxed), MerkleBox(9, 9, 0, None), Box("moof", PreBoxed),
      Box("mdat", PreBoxed)>>

\* the originals: the pre-boxed fragment carries a rolling box or a Merkle box
SignOriginals == {Originals, [Originals EXCEPT ![PreBoxed] = Some(PreMerkled)]}

\* the groups handed to add_merkle_for_fragmented: the first k fragments, the
\* second fragment alone, the pre-boxed fragment alone
SignGroups == {[i \in 1..k |-> i] : k \in PlainFrags} \cup {<<2>>, <<PreBoxed>>}

\* (unique_id, local_id) as the caller passes them
SignIds == {<<None, 1>>, <<None, 2>>, <<Some(1), 2>>}

\* one add_merkle_for_fragmented call on the engine's assertion; call keeps
\* the arguments and what the call started from
MerkleStep(groups) ==
    /\ \E fps \in groups, ids \in SignIds :
        \E r \in {add_merkle_for_fragmented(bmff, media, out, LiveAlg, fps, ids[2], ids[1])} :
            /\ bmff' = r.bmff
            /\ media' = r.media
            /\ out' = r.out
            /\ res' = [NoRes EXCEPT !.op = "merkle", !.ok = r.ok, !.err = r.err,
                                    !.alg = LiveAlg]
            /\ call' = [op |-> "merkle", fps |-> fps, local_id |-> ids[2],
                        unique_id |-> IF IsSome(ids[1]) THEN Unwrap(ids[1]) ELSE ids[2],
                        before |-> bmff, mediaBefore |-> media]
    /\ nops' = nops + 1
    /\ UNCHANGED <<chain, phase>>
    /\ UNCHANGED <<deletes, req, retry>>
    /\ UNCHANGED <<treeVars, verifyVars, liveVars, storeVars>>

SignMerkle ==
    /\ nops < MaxSignOps
    /\ MerkleStep(SignGroups)

SignInithash ==
    /\ nops < MaxSignOps
    /\ InithashStep

SignShift ==
    /\ nops < MaxSignOps
    /\ ShiftStep

SignAdd ==
    /\ nops < MaxSignOps
    /\ \E f \in PlainFrags \cup {PreBoxed} : AddFragmentStep(f, LiveAlg)

SignNext == SignMerkle \/ SignInithash \/ SignShift \/ SignAdd

InitSign ==
    /\ bmff = NewBmffHash("sha256")
    /\ media \in SignOriginals
    /\ out = [n \in FileNames |-> None]
    /\ res = NoRes
    /\ chain = <<>>
    /\ phase = "idle"
    /\ nops = 0
    /\ TreeIdle /\ VerifyIdle /\ LiveIdle /\ StoreIdle /\ UtilIdle

SpecSign == InitSign /\ [][SignNext]_vars

\* the last call was a successful add_merkle_for_fragmented
MerkleDone == res.op = "merkle" /\ res.ok /\ call.op = "merkle"

\* the MerkleMap of the assertion with the ids of the last call
StoredMaps ==
    SelectSeq(Unwrap(bmff.merkle),
              LAMBDA mm : mm.unique_id = call.unique_id /\ mm.local_id = call.local_id)

\* the file fragment f of the group was signed into: the original when the
\* call wrote it, the output copy otherwise
FinalFile(f) ==
    IF media[f] # call.mediaBefore[f] THEN Unwrap(media[f]) ELSE Unwrap(out[f])

\* a signed fragment with another proof in its BmffMerkleMap box
Reproofed(file) ==
    [i \in 1..Len(file) |->
        IF file[i].kind = "merkle" THEN [file[i] EXCEPT !.hashes = Some(<<Foreign>>)]
        ELSE file[i]]

\* the row at height ceil(log2 n) of the tree over the given leaves
RowOver(leaves) == from_leaves(leaves, LiveAlg)[CeilLog2(Len(leaves)) + 1]

\* C31: the bytes of the C2PA uuid box never contribute to a hash: the row a
\* Merkle signing stores is the one over the leaf hashes of the finished
\* fragments (real proof in the box) and of the same fragments with another
\* proof, although the leaves were hashed with the placeholder proof; the
\* rolling_hash a rolling signing stores is the one over the signed fragment
\* with its anchor_point, with another one and with none.
C31_BoxBytesNeverHashed ==
    /\ MerkleDone =>
        \A variant \in {[i \in 1..Len(call.fps) |-> FinalFile(call.fps[i])],
                        [i \in 1..Len(call.fps) |-> Reproofed(FinalFile(call.fps[i]))]} :
            StoredMaps[1].hashes =
                RowOver([i \in 1..Len(variant) |->
                            hash_stream_by_alg(LiveAlg, variant[i], bmff.exclusions)])
    /\ (res.op = "add" /\ res.ok) =>
        \A variant \in {Unwrap(out[res.f]), Reanchored(Unwrap(out[res.f])),
                        Unanchored(Unwrap(out[res.f]))} :
            LET lr == hash_pair(res.prev,
                                hash_stream_by_alg(res.alg, variant, bmff.exclusions))
            IN current_hash(bmff) = Some(concat_and_hash(res.alg, lr[1], lr[2]))

\* a group signed with a proof of two hashes for its first fragment, after a
\* fragment was signed under the rolling scheme
C31_Witness ==
    /\ MerkleDone
    /\ Len(call.fps) = NumFrags
    /\ Len(Unwrap(bmff_merkle(Unwrap(out[1]))[1].hashes)) = 2
    /\ IsSome(current_hash(bmff))
    /\ \E f \in FragNames :
        /\ IsSome(out[f])
        /\ Len(rolling_hashes(Unwrap(out[f]))) >= 1


\* the BmffMerkleMap box fragment number i (from 1) of the group ends with
FinalBox(i) == bmff_merkle(FinalFile(call.fps[i]))[1]

\* the placeholder proof the signer first wrote for that fragment
PlaceholderOf(i) ==
    ProofOption(placeholder_proof(dummy_tree(Len(call.fps), LiveAlg), i - 1,
                                  CeilLog2(Len(call.fps))))

FinalLeaves ==
    [i \in 1..Len(call.fps) |->
        hash_stream_by_alg(LiveAlg, FinalFile(call.fps[i]), bmff.exclusions)]

\* the root of the tree over the given nodes: pairs are hashed layer by
\* layer, an odd last node moves up as it is
RECURSIVE RootOf(_)
RootOf(nodes) ==
    IF Len(nodes) = 1 THEN nodes[1]
    ELSE RootOf([k \in 1..((Len(nodes) + 1) \div 2) |->
                    IF 2 * k <= Len(nodes)
                    THEN Digest(LiveAlg, nodes[2 * k - 1] \o nodes[2 * k])
                    ELSE nodes[2 * k - 1]])

\* C33: after add_merkle_for_fragmented over n >= 1 fragments the MerkleMap
\* it stores has count = n and hashes = the single root of the tree over the
\* n leaf hashes in fragment order; for n = 1 the proof is empty and the row
\* is the leaf itself.
C33_StoredRowIsRoot ==
    MerkleDone =>
        /\ Len(StoredMaps) = 1
        /\ StoredMaps[1].count = Len(call.fps)
        /\ StoredMaps[1].alg = Some(LiveAlg)
        /\ StoredMaps[1].hashes = <<RootOf(FinalLeaves)>>
        /\ Len(call.fps) = 1 =>
                /\ IsNone(FinalBox(1).hashes)
                /\ StoredMaps[1].hashes = FinalLeaves

C33_Witness ==
    /\ MerkleDone
    /\ Len(call.fps) = NumFrags
    /\ StoredMaps[1].count = NumFrags
    /\ StoredMaps[1].hashes = <<RootOf(FinalLeaves)>>
    /\ IsSome(call.before.merkle)

-----------------------------------------------------------------------------
\* add_merkle_for_fragmented called MaxMapOps times on one assertion

MaxMapOps == 3

\* the groups handed in: the first fragment, and the first two
MapGroups == {<<1>>, <<1, 2>>}

MapsMerkle ==
    /\ nops < MaxMapOps
    /\ MerkleStep(MapGroups)

SpecMaps == Init /\ [][MapsMerkle]_vars

MerkleList(b) == IF IsSome(b.merkle) THEN Unwrap(b.merkle) ELSE <<>>

HasCallIds(mm) == mm.unique_id = call.unique_id /\ mm.local_id = call.local_id

\* C34: after any sequence of successful add_merkle_for_fragmented calls the
\* list holds at most one MerkleMap per (unique_id, local_id); a call with an
\* existing pair replaces that map in place and leaves the others as they
\* were, a call with a new pair appends one map.
C34_OneMapPerIdPair ==
    /\ \A i, j \in 1..Len(MerkleList(bmff)) :
            SameIds(MerkleList(bmff)[i], MerkleList(bmff)[j]) => i = j
    /\ MerkleDone =>
        LET old == MerkleList(call.before)
            new == MerkleList(bmff)
        IN IF \E k \in 1..Len(old) : HasCallIds(old[k])
           THEN /\ Len(new) = Len(old)
                /\ \A k \in 1..Len(old) :
                        IF HasCallIds(old[k])
                        THEN HasCallIds(new[k]) /\ new[k].count = Len(call.fps)
                        ELSE new[k] = old[k]
           ELSE /\ Len(new) = Len(old) + 1
                /\ SubSeq(new, 1, Len(old)) = old
                /\ HasCallIds(new[Len(new)])
                /\ new[Len(new)].count = Len(call.fps)

\* two maps stored, then the first replaced by one over another group
C34_Witness ==
    /\ MerkleDone
    /\ Len(MerkleList(call.before)) = 2
    /\ Len(MerkleList(bmff)) = 2
    /\ HasCallIds(MerkleList(bmff)[1])
    /\ MerkleList(bmff)[1] # MerkleList(call.before)[1]
    /\ MerkleList(bmff)[2] = MerkleList(call.before)[2]

-----------------------------------------------------------------------------
\* Both schemes on one assertion, and writes to the originals

\* C35: merkle and rolling_hash of one BmffHash are never both populated; the
\* call that would add the second scheme returns an error
C35_NeverBothSchemes == ~(IsSome(bmff.merkle) /\ IsSome(bmff.rolling_hash))

\* C37: no call of add_merkle_for_fragmented, add_rolling_hash_fragment,
\* shift_rolling_hash or update_fragmented_inithash changes a file under
\* <media>/<name>/, also when the fragment already carries a C2PA box
C37_OriginalsNeverWritten == [][media' = media]_vars

-----------------------------------------------------------------------------
\* The chain head under shift_rolling_hash

\* C38: once a fragment has been signed (the assertion holds a RollingHash),
\* rolling_hash or previous_hash holds a chain value after every
\* add_rolling_hash_fragment and shift_rolling_hash call; two shifts in a row
\* do not erase it
C38_ChainHeadKept ==
    IsSome(bmff.rolling_hash) =>
        IsSome(current_hash(bmff)) \/ IsSome(previous_hash(bmff))

-----------------------------------------------------------------------------
\* Rolling verification of a fragment without a C2PA box

NoC2paBox(file) == \A i \in 1..Len(file) : ~IsC2paBox(file[i])

\* C36: verify_stream_segment in rolling mode, handed a fragment that carries
\* no C2PA uuid box, returns MissingBox or HashMismatch; it neither panics
\* nor accepts the fragment
C36_NoBoxIsError ==
    (vcall.asked /\ RollingMode(vcall.manifest) /\ NoC2paBox(Presented)) =>
        (~vcall.ok /\ vcall.err \in {"MissingBox", "HashMismatch"})

-----------------------------------------------------------------------------
\* The algorithm of the init hash: signer against verifier

MaxAlgOps == 3

\* the algorithms a caller may name
HashAlgs == {"sha256", "sha384"}

\* add_rolling_hash_fragment with the algorithm the caller names
AlgAdd ==
    /\ nops < MaxAlgOps
    /\ ~vcall.asked
    /\ \E f \in PlainFrags, alg \in HashAlgs : AddFragmentStep(f, alg)

AlgInithash ==
    /\ nops < MaxAlgOps
    /\ ~vcall.asked
    /\ InithashStep

\* the verifier's init-hash check, verify_stream_hash(init_stream, alg), on
\* the init file of the output tree as the signer left it
AlgVerifyInit ==
    /\ ~vcall.asked
    /\ IsSome(bmff.rolling_hash)
    /\ IsSome(out[InitName])
    /\ \E alg \in {None} \cup {Some(a) : a \in HashAlgs} :
        \E r \in {verify_stream_hash(bmff, Unwrap(out[InitName]), alg)} :
            vcall' = [asked |-> TRUE, op |-> "init", manifest |-> bmff,
                      init |-> Unwrap(out[InitName]), fragments |-> <<>>,
                      ok |-> r.ok, err |-> r.err, msg |-> r.msg]
    /\ UNCHANGED <<engineVars, treeVars, liveVars, storeVars, utilVars>>

AlgNext == AlgAdd \/ AlgInithash \/ AlgVerifyInit

\* the assertion is made by BmffHash::new with either algorithm
InitAlgs ==
    /\ bmff \in {NewBmffHash(a) : a \in HashAlgs}
    /\ media = Originals
    /\ out = [n \in FileNames |-> None]
    /\ res = NoRes
    /\ chain = <<>>
    /\ phase = "idle"
    /\ nops = 0
    /\ TreeIdle /\ VerifyIdle /\ LiveIdle /\ StoreIdle /\ UtilIdle

SpecAlgs == InitAlgs /\ [][AlgNext]_vars

\* C39: in the rolling scheme the init_hash stored by a successful
\* update_fragmented_inithash passes the verifier's init-hash check on the
\* same init file, whatever the assertion's alg, the RollingHash's alg and the
\* alg the verifier's caller names
C39_InitHashAccepted ==
    (vcall.asked /\ vcall.op = "init" /\ res.op = "inithash" /\ res.ok) => vcall.ok

-----------------------------------------------------------------------------
\* Manifold::get and Manifold::insert running concurrently (manifold.rs): the
\* DashMap entry is locked from get_mut to drop(lock); the remove that follows
\* is a second step

MaxInserts == 2
MaxGets == 2

\* usize, kept in two's complement: a negative value stands for the value
\* 2^64 higher, so 0 - 1 wraps to the highest usize
WrappingDec(count) == count - 1

IdleGetter == [pc |-> "idle", rep |-> "", clone |-> 0, gets |-> 0]

\* overflow_checks: the build panics on integer overflow (debug) or wraps
\* (release). reads[id] counts the get calls that returned payload id.
NewManifold(checks) ==
    [map |-> [r \in {} |-> None], callers |-> [c \in Callers |-> IdleGetter],
     inserted |-> 0, reads |-> [id \in 1..MaxInserts |-> 0], underflow |-> FALSE,
     overflow_checks |-> checks]

\* EventPayload::new, the id telling the payloads apart
Payload(id) == [count |-> NewPayload.count, id |-> id]

\* Manifold::insert(rep, EventPayload::new(..))
MfInsert ==
    /\ retry.inserted < MaxInserts
    /\ \E rep \in Reps :
        retry' = [retry EXCEPT
            !.inserted = @ + 1,
            !.map = [r \in DOMAIN @ \cup {ToStr(rep)} |->
                        IF r = ToStr(rep) THEN Payload(retry.inserted + 1) ELSE @[r]]]
    /\ UNCHANGED <<deletes, req, call>>
    /\ UNCHANGED <<engineVars, treeVars, verifyVars, liveVars, storeVars>>

\* Manifold::get up to the test of the count, all under the entry's lock:
\* get_mut, count -= 1, clone. A missing entry ends the call with an error;
\* a count that reached 0 leaves the remove to be done; a decrement of 0
\* panics or wraps.
MfGetLocked ==
    /\ \E c \in Callers, rep \in Reps :
        LET key == ToStr(rep)
            me == retry.callers[c]
        IN
        /\ me.pc = "idle"
        /\ me.gets < MaxGets
        /\ IF key \notin DOMAIN retry.map
           THEN retry' = [retry EXCEPT !.callers[c].gets = @ + 1]
           ELSE IF retry.map[key].count = 0 /\ retry.overflow_checks
           THEN retry' = [retry EXCEPT !.underflow = TRUE,
                                       !.callers[c].pc = "panicked"]
           ELSE \E count \in {WrappingDec(retry.map[key].count)} :
                retry' = [retry EXCEPT
                    !.underflow = @ \/ retry.map[key].count = 0,
                    !.map[key].count = count,
                    !.reads[retry.map[key].id] = IF count = 0 THEN @ ELSE @ + 1,
                    !.callers[c] =
                        IF count = 0
                        THEN [pc |-> "removing", rep |-> key,
                              clone |-> retry.map[key].id, gets |-> me.gets + 1]
                        ELSE [me EXCEPT !.gets = @ + 1]]
    /\ UNCHANGED <<deletes, req, call>>
    /\ UNCHANGED <<engineVars, treeVars, verifyVars, liveVars, storeVars>>

\* Manifold::get after drop(lock): self.remove(rep) takes out whatever entry
\* the key holds now, and the clone is returned
MfRemove ==
    /\ \E c \in Callers :
        LET me == retry.callers[c] IN
        /\ me.pc = "removing"
        /\ retry' = [retry EXCEPT
                !.map = [r \in DOMAIN @ \ {me.rep} |-> @[r]],
                !.reads[me.clone] = @ + 1,
                !.callers[c] = [IdleGetter EXCEPT !.gets = me.gets]]
    /\ UNCHANGED <<deletes, req, call>>
    /\ UNCHANGED <<engineVars, treeVars, verifyVars, liveVars, storeVars>>

ManifoldNext == MfInsert \/ MfGetLocked \/ MfRemove

InitManifold ==
    /\ EngineInit /\ TreeIdle /\ VerifyIdle /\ LiveIdle /\ StoreIdle
    /\ deletes = {}
    /\ req = NoRequests
    /\ call = NoUtilCall
    /\ retry \in {NewManifold(checks) : checks \in BOOLEAN}

SpecManifold == InitManifold /\ [][ManifoldNext]_vars

\* C40: under every interleaving of get and insert calls on one key the
\* count of an entry is never decremented below zero, and every inserted
\* payload is returned by at most as many get calls as its initial count
C40_NoUnderflowAndBoundedReads ==
    /\ ~retry.underflow
    /\ \A id \in 1..MaxInserts : retry.reads[id] <= NewPayload.count

====
